---- MODULE Spec2Model ----
\* Verification model of the occupancy-grid rasterizer and its encoders
\* (src/src/OccupancyGridGenerator.js).
\*
\* Arithmetic.  World coordinates, sizes and the resolution are integers (one
\* world unit each).  The code's real-valued intermediate results (cell
\* centres at half cells, half widths, rotated corners) are kept exactly as
\* numerators over the common denominator Scale = 2 * TrigDen: a value v of
\* the code is the integer Scale * v of the model.  Rotations are angles
\* whose sine and cosine are exact multiples of 1/TrigDen (0, a quarter
\* turn, and the 3-4-5 angles), so containment and bounding boxes are computed
\* without rounding.
EXTENDS Integers, Sequences, FiniteSets, TLC

\* ---------------------------------------------------------------- bounds
\* longest object list given to generateOccupancyGrid
MaxObjs == 2
\* most decimal digits of a width or height given to generateNPY on its own
MaxDigits == 4
\* most calls of downloadOccupancyGrid made by the page
MaxCalls == 2
\* most objects rasterized by concurrent processes
MaxProcs == 2
\* longest object list of a call in a sequence of calls
MaxCallObjs == 1
\* the points given to isPointInShape on its own have coordinates of at most
\* this many tenths of a world unit
MaxProbe == 30
\* most gestures of the user (clicks, keys, mouse moves) in one run of the editor
MaxEdits == 6
\* most clicked points kept while a polygon is being drawn
MaxTempPoints == 3

\* ------------------------------------------------------------- constants
FREE == 254
OCCUPIED == 0
UNKNOWN == 205
TrigDen == 5
Scale == 2 * TrigDen

\* ------------------------------------------------------------- arithmetic
Abs(x) == IF x < 0 THEN -x ELSE x

\* Math.floor(a / b) for b > 0
FloorDiv(a, b) == a \div b

\* Math.ceil(a / b) for b > 0
CeilDiv(a, b) == -((-a) \div b)

RECURSIVE SeqMin(_)
SeqMin(s) == IF Len(s) = 1 THEN s[1]
             ELSE LET m == SeqMin(Tail(s)) IN IF s[1] < m THEN s[1] ELSE m

RECURSIVE SeqMax(_)
SeqMax(s) == IF Len(s) = 1 THEN s[1]
             ELSE LET m == SeqMax(Tail(s)) IN IF s[1] > m THEN s[1] ELSE m

\* Math.cos(angle) and Math.sin(angle), times TrigDen, of the angle named a
Angles == {"0", "pi/2", "atan(4/3)", "-atan(3/4)"}
CosT(a) == CASE a = "0" -> 5 [] a = "pi/2" -> 0
             [] a = "atan(4/3)" -> 3 [] a = "-atan(3/4)" -> 4
SinT(a) == CASE a = "0" -> 0 [] a = "pi/2" -> 5
             [] a = "atan(4/3)" -> 4 [] a = "-atan(3/4)" -> -3

\* ------------------------------------------------------------------ inputs
Circle(c, r) ==
  [type |-> "circle", center |-> c, radius |-> r, width |-> 0, height |-> 0,
   rotation |-> "undefined", vertices |-> <<>>]
Rectangle(c, w, h, rot) ==
  [type |-> "rectangle", center |-> c, radius |-> 0, width |-> w, height |-> h,
   rotation |-> rot, vertices |-> <<>>]
Polygon(t, c, vs) ==
  [type |-> t, center |-> c, radius |-> 0, width |-> 0, height |-> 0,
   rotation |-> "undefined", vertices |-> vs]
\* a shape whose tag the rasterizer does not know
Ellipse(c, r) ==
  [type |-> "ellipse", center |-> c, radius |-> r, width |-> 0, height |-> 0,
   rotation |-> "undefined", vertices |-> <<>>]

MapInfos ==
  { [name |-> "lab", width |-> 5, height |-> 4, resolution |-> 2,
     origin |-> <<-1, 0>>],
    [name |-> "hall", width |-> 6, height |-> 9, resolution |-> 3,
     origin |-> <<0, -3>>],
    [name |-> "yard", width |-> 7, height |-> 5, resolution |-> 2,
     origin |-> <<-2, -1>>] }

Shapes ==
  { Circle(<<4, 3>>, 2),
    Rectangle(<<5, 1>>, 4, 2, "undefined"),
    Rectangle(<<2, 2>>, 4, 2, "atan(4/3)"),
    Rectangle(<<1, 3>>, 4, 2, "pi/2"),
    Polygon("triangle", <<0, 1>>, << <<-3, -1>>, <<3, -1>>, <<0, 4>> >>),
    Polygon("polygon", <<2, 2>>,
            << <<0, 0>>, <<5, 0>>, <<5, 2>>, <<2, 2>>, <<2, 5>>, <<0, 5>> >>),
    Ellipse(<<2, 2>>, 3) }

SmallShapes ==
  { Circle(<<4, 3>>, 2), Rectangle(<<2, 2>>, 4, 2, "atan(4/3)") }

MapObject(t, s) == [type |-> t, shape |-> s]

ObjectPool ==
  { MapObject("wall", s) : s \in Shapes }
    \cup { MapObject(t, s) : t \in {"zone", "robot", "landmark"}, s \in SmallShapes }

ObjectLists == UNION { [1..n -> ObjectPool] : n \in 0..MaxObjs }

\* ------------------------------------------------------------- rasterizer
\* mutant: a partial last column is dropped
gridWidth_Floor(m) == FloorDiv(m.width, m.resolution)

gridWidth(m) == CeilDiv(m.width, m.resolution)
gridHeight(m) == CeilDiv(m.height, m.resolution)

\* mutant: the grid starts as "unknown"
NewGrid_Unknown(m) == [i \in 0..(gridWidth(m) * gridHeight(m) - 1) |-> UNKNOWN]

\* new Uint8Array(gridWidth * gridHeight); grid.fill(254)
NewGrid(m) == [i \in 0..(gridWidth(m) * gridHeight(m) - 1) |-> FREE]

\* mutant: rounds up instead of down
worldToGrid_Ceil(m, wx, wy) ==
  [gridX |-> CeilDiv(wx - Scale * m.origin[1], Scale * m.resolution),
   gridY |-> CeilDiv(wy - Scale * m.origin[2], Scale * m.resolution)]

\* worldToGrid; wx, wy are scaled world coordinates
worldToGrid(m, wx, wy) ==
  [gridX |-> FloorDiv(wx - Scale * m.origin[1], Scale * m.resolution),
   gridY |-> FloorDiv(wy - Scale * m.origin[2], Scale * m.resolution)]

\* mutant: no bounds check, only the typed array's own length check
setGridCell_NoBounds(m, g, gridX, gridY, value) ==
  IF gridY * gridWidth(m) + gridX \in DOMAIN g
  THEN [g EXCEPT ![gridY * gridWidth(m) + gridX] = value]
  ELSE g

\* mutant: the write toggles the cell (an XOR-style merge)
setGridCell_Toggle(m, g, gridX, gridY, value) ==
  IF gridX >= 0 /\ gridX < gridWidth(m) /\ gridY >= 0 /\ gridY < gridHeight(m)
  THEN [g EXCEPT ![gridY * gridWidth(m) + gridX] =
          IF @ = value THEN FREE ELSE value]
  ELSE g

\* setGridCell: the bounds-checked write
setGridCell(m, g, gridX, gridY, value) ==
  IF gridX >= 0 /\ gridX < gridWidth(m) /\ gridY >= 0 /\ gridY < gridHeight(m)
  THEN [g EXCEPT ![gridY * gridWidth(m) + gridX] = value]
  ELSE g

\* mutant: the rotation field is not read
RotOf_Unrotated(shape) == "0"
\* (shape.rotation || 0), then angle = -rotation: cos(-r) = cos r, sin(-r) = -sin r
RotOf(shape) == IF shape.rotation = "undefined" THEN "0" ELSE shape.rotation
AngleCos(shape) == CosT(RotOf(shape))
AngleSin(shape) == -SinT(RotOf(shape))

\* mutant: the first comparison takes an endpoint at the point's Y as above
Straddles_NonStrict(point, vi, vj) ==
  (Scale * vi[2] >= point.y) # (Scale * vj[2] > point.y)

\* (yi > point.y) !== (yj > point.y), the left operand of the && : only when
\* it is true is the right operand, with its division by yj - yi, evaluated
Straddles(point, vi, vj) ==
  (Scale * vi[2] > point.y) # (Scale * vj[2] > point.y)

\* mutant: a point on an edge's line counts as left of it
Intersect_NonStrict(point, vi, vj) ==
  LET xi == vi[1]  yi == vi[2]  xj == vj[1]  yj == vj[2]
      d == yj - yi
      rhs == (xj - xi) * (point.y - Scale * yi) + Scale * xi * d
  IN  Straddles(point, vi, vj)
      /\ (IF d > 0 THEN point.x * d <= rhs ELSE point.x * d >= rhs)

\* one iteration of the polygon loop: does edge (vertices[i], vertices[j])
\* toggle the flag?  point is scaled, the vertices are not.
Intersect(point, vi, vj) ==
  LET xi == vi[1]  yi == vi[2]  xj == vj[1]  yj == vj[2]
      d == yj - yi
      \* (xj - xi) * (point.y - yi) / (yj - yi) + xi, times Scale * d
      rhs == (xj - xi) * (point.y - Scale * yi) + Scale * xi * d
  IN  Straddles(point, vi, vj)
      /\ (IF d > 0 THEN point.x * d < rhs ELSE point.x * d > rhs)

RECURSIVE PolyLoop(_, _, _, _, _)
PolyLoop(point, vertices, i, j, inside) ==
  IF i > Len(vertices) THEN inside
  ELSE PolyLoop(point, vertices, i + 1, i,
                IF Intersect(point, vertices[i], vertices[j])
                THEN ~inside ELSE inside)

\* mutant: an unknown shape tag counts as containing every point
isPointInShape_DefaultTrue(point, shape) ==
  IF shape.type = "circle" THEN
    LET dx == point.x - Scale * shape.center[1]
        dy == point.y - Scale * shape.center[2]
    IN  shape.radius >= 0
        /\ dx * dx + dy * dy <= (Scale * shape.radius) * (Scale * shape.radius)
  ELSE IF shape.type = "rectangle" THEN
    LET dx == point.x - Scale * shape.center[1]
        dy == point.y - Scale * shape.center[2]
        rotX == dx * AngleCos(shape) - dy * AngleSin(shape)
        rotY == dx * AngleSin(shape) + dy * AngleCos(shape)
    IN  2 * Abs(rotX) <= Scale * TrigDen * shape.width
        /\ 2 * Abs(rotY) <= Scale * TrigDen * shape.height
  ELSE IF shape.type = "polygon" \/ shape.type = "triangle" THEN
    IF Len(shape.vertices) = 0 THEN FALSE
    ELSE PolyLoop(point, shape.vertices, 1, Len(shape.vertices), FALSE)
  ELSE TRUE

\* mutant: the circle's boundary is left out
isPointInShape_StrictCircle(point, shape) ==
  IF shape.type = "circle" THEN
    LET dx == point.x - Scale * shape.center[1]
        dy == point.y - Scale * shape.center[2]
    IN  shape.radius >= 0
        /\ dx * dx + dy * dy < (Scale * shape.radius) * (Scale * shape.radius)
  ELSE IF shape.type = "rectangle" THEN
    LET dx == point.x - Scale * shape.center[1]
        dy == point.y - Scale * shape.center[2]
        rotX == dx * AngleCos(shape) - dy * AngleSin(shape)
        rotY == dx * AngleSin(shape) + dy * AngleCos(shape)
    IN  2 * Abs(rotX) <= Scale * TrigDen * shape.width
        /\ 2 * Abs(rotY) <= Scale * TrigDen * shape.height
  ELSE IF shape.type = "polygon" \/ shape.type = "triangle" THEN
    IF Len(shape.vertices) = 0 THEN FALSE
    ELSE PolyLoop(point, shape.vertices, 1, Len(shape.vertices), FALSE)
  ELSE FALSE

\* isPointInShape; point is scaled
isPointInShape(point, shape) ==
  IF shape.type = "circle" THEN
    LET dx == point.x - Scale * shape.center[1]
        dy == point.y - Scale * shape.center[2]
    IN  shape.radius >= 0
        /\ dx * dx + dy * dy <= (Scale * shape.radius) * (Scale * shape.radius)
  ELSE IF shape.type = "rectangle" THEN
    LET dx == point.x - Scale * shape.center[1]
        dy == point.y - Scale * shape.center[2]
        \* rotX, rotY times Scale * TrigDen
        rotX == dx * AngleCos(shape) - dy * AngleSin(shape)
        rotY == dx * AngleSin(shape) + dy * AngleCos(shape)
    IN  2 * Abs(rotX) <= Scale * TrigDen * shape.width
        /\ 2 * Abs(rotY) <= Scale * TrigDen * shape.height
  ELSE IF shape.type = "polygon" \/ shape.type = "triangle" THEN
    IF Len(shape.vertices) = 0 THEN FALSE
    ELSE PolyLoop(point, shape.vertices, 1, Len(shape.vertices), FALSE)
  ELSE FALSE

\* mutant: the corners are taken without the rotation
transformedCorners_Unrotated(shape) ==
  LET corners == << <<-1, -1>>, <<1, -1>>, <<1, 1>>, <<-1, 1>> >>
  IN  [k \in 1..4 |->
        << Scale * shape.center[1] + corners[k][1] * shape.width * TrigDen,
           Scale * shape.center[2] + corners[k][2] * shape.height * TrigDen >>]

\* transformedCorners of a rectangle, scaled
transformedCorners(shape) ==
  LET corners == << <<-1, -1>>, <<1, -1>>, <<1, 1>>, <<-1, 1>> >>
  IN  [k \in 1..4 |->
        LET x == corners[k][1] * shape.width    \* 2 * local x
            y == corners[k][2] * shape.height   \* 2 * local y
        IN  << Scale * shape.center[1] + (x * AngleCos(shape) - y * AngleSin(shape)),
               Scale * shape.center[2] + (x * AngleSin(shape) + y * AngleCos(shape)) >>]

\* the bounding box (scaled); nan is TRUE when minX..maxY stay undefined
BoundsOf(shape) ==
  IF shape.type = "circle" THEN
    [nan |-> FALSE,
     minX |-> Scale * (shape.center[1] - shape.radius),
     maxX |-> Scale * (shape.center[1] + shape.radius),
     minY |-> Scale * (shape.center[2] - shape.radius),
     maxY |-> Scale * (shape.center[2] + shape.radius)]
  ELSE IF shape.type = "rectangle" THEN
    LET tc == transformedCorners(shape)
        xs == [k \in 1..4 |-> tc[k][1]]
        ys == [k \in 1..4 |-> tc[k][2]]
    IN  [nan |-> FALSE, minX |-> SeqMin(xs), maxX |-> SeqMax(xs),
         minY |-> SeqMin(ys), maxY |-> SeqMax(ys)]
  ELSE IF shape.type = "polygon" \/ shape.type = "triangle" THEN
    LET xs == [k \in 1..Len(shape.vertices) |-> Scale * shape.vertices[k][1]]
        ys == [k \in 1..Len(shape.vertices) |-> Scale * shape.vertices[k][2]]
    IN  [nan |-> FALSE, minX |-> SeqMin(xs), maxX |-> SeqMax(xs),
         minY |-> SeqMin(ys), maxY |-> SeqMax(ys)]
  ELSE [nan |-> TRUE, minX |-> 0, maxX |-> 0, minY |-> 0, maxY |-> 0]

\* minGrid and maxGrid; a NaN bound makes every loop comparison false
GridRange(m, shape) ==
  LET b == BoundsOf(shape)
      minGrid == worldToGrid(m, b.minX, b.minY)
      maxGrid == worldToGrid(m, b.maxX, b.maxY)
  IN  [nan |-> b.nan, minX |-> minGrid.gridX, maxX |-> maxGrid.gridX,
       minY |-> minGrid.gridY, maxY |-> maxGrid.gridY]

\* the cell-centre point of cell (gx, gy), scaled
CellCentre(m, gx, gy) ==
  [x |-> Scale * m.origin[1] + (2 * gx + 1) * TrigDen * m.resolution,
   y |-> Scale * m.origin[2] + (2 * gy + 1) * TrigDen * m.resolution]

\* mutant: a cell whose centre is outside the shape is written free
CellStep_Clears(m, g, shape, gx, gy) ==
  IF isPointInShape(CellCentre(m, gx, gy), shape)
  THEN setGridCell(m, g, gx, gy, OCCUPIED)
  ELSE setGridCell(m, g, gx, gy, FREE)

\* the body of the inner loop
CellStep(m, g, shape, gx, gy) ==
  IF isPointInShape(CellCentre(m, gx, gy), shape)
  THEN setGridCell(m, g, gx, gy, OCCUPIED)
  ELSE g

\* mutant: only robots are skipped
IsExcluded_RobotOnly(obj) == obj.type = "robot"

\* mutant: only obstacles and walls are rasterized
IsExcluded_Whitelist(obj) == ~(obj.type = "obstacle" \/ obj.type = "wall")

\* obj.type === 'robot' || obj.type === 'landmark'
IsExcluded(obj) == obj.type = "robot" \/ obj.type = "landmark"

\* ---- the whole call as a function (objects.forEach over the two loops) ----
RECURSIVE CellLoops(_, _, _, _, _, _)
CellLoops(m, g, shape, r, gx, gy) ==
  IF r.nan \/ gy > r.maxY THEN g
  ELSE IF gx > r.maxX THEN CellLoops(m, g, shape, r, r.minX, gy + 1)
  ELSE CellLoops(m, CellStep(m, g, shape, gx, gy), shape, r, gx + 1, gy)

\* the forEach callback
RasterizeObject(m, g, obj) ==
  IF IsExcluded(obj) THEN g
  ELSE LET r == GridRange(m, obj.shape)
       IN  CellLoops(m, g, obj.shape, r, r.minX, r.minY)

RECURSIVE ForEach(_, _, _, _)
ForEach(m, g, objs, k) ==
  IF k > Len(objs) THEN g
  ELSE ForEach(m, RasterizeObject(m, g, objs[k]), objs, k + 1)

\* the grid generateOccupancyGrid hands to its encoders
Rasterize(m, objs) == ForEach(m, NewGrid(m), objs, 1)

\* ------------------------------------------------------------ image encoder
RECURSIVE Digits(_)
\* the decimal digits of n >= 0 as character codes (template-literal ${n})
Digits(n) == IF n < 10 THEN <<48 + n>>
             ELSE Append(Digits(n \div 10), 48 + (n % 10))

\* TextEncoder().encode(`P5\n${width} ${height}\n255\n`)
PGMHeader(width, height) ==
  <<80, 53, 10>> \o Digits(width) \o <<32>> \o Digits(height) \o <<10>>
    \o <<50, 53, 53, 10>>

RECURSIVE FlipLoop_NoFlip(_, _, _, _, _, _)
\* mutant: rows are copied without the flip
FlipLoop_NoFlip(g, width, height, pgmGrid, row, col) ==
  IF row >= height THEN pgmGrid
  ELSE IF col >= width THEN FlipLoop_NoFlip(g, width, height, pgmGrid, row + 1, 0)
  ELSE LET srcIndex == row * width + col
           dstIndex == row * width + col
       IN  FlipLoop_NoFlip(g, width, height,
                           [pgmGrid EXCEPT ![dstIndex] = g[srcIndex]], row, col + 1)

RECURSIVE FlipLoop(_, _, _, _, _, _)
\* the row/col loops writing pgmGrid[dstIndex] = grid[srcIndex]
FlipLoop(g, width, height, pgmGrid, row, col) ==
  IF row >= height THEN pgmGrid
  ELSE IF col >= width THEN FlipLoop(g, width, height, pgmGrid, row + 1, 0)
  ELSE LET srcIndex == row * width + col
           dstIndex == (height - 1 - row) * width + col
       IN  FlipLoop(g, width, height,
                    [pgmGrid EXCEPT ![dstIndex] = g[srcIndex]], row, col + 1)

\* a zero-filled Uint8Array(n) and its bytes in index order
ZeroBytes(n) == [i \in 0..(n - 1) |-> 0]
BytesOf(a, n) == [k \in 1..n |-> a[k - 1]]

\* mutant: free cells are written white (255)
generatePGM_Remapped(g, width, height) ==
  LET pgmGrid == FlipLoop(g, width, height, ZeroBytes(width * height), 0, 0)
  IN  PGMHeader(width, height)
        \o [k \in 1..(width * height) |->
              IF pgmGrid[k - 1] = 254 THEN 255 ELSE pgmGrid[k - 1]]

generatePGM(g, width, height) ==
  LET pgmGrid == FlipLoop(g, width, height, ZeroBytes(width * height), 0, 0)
  IN  PGMHeader(width, height) \o BytesOf(pgmGrid, width * height)

\* --------------------------------------------------------- metadata encoder
\* mutant: the two thresholds are exchanged
generateYAML_Swapped(m, width, height) ==
  << <<"image: ", m.name, ".pgm">>,
     <<"resolution: ", m.resolution>>,
     <<"origin: [", m.origin[1], ", ", m.origin[2], ", 0.0]">>,
     <<"negate: 0">>,
     <<"occupied_thresh: 0.196">>,
     <<"free_thresh: 0.65">> >>

\* generateYAML: the lines of the template, each a sequence of its literal
\* parts and interpolated values; every line ends with a newline
generateYAML(m, width, height) ==
  << <<"image: ", m.name, ".pgm">>,
     <<"resolution: ", m.resolution>>,
     <<"origin: [", m.origin[1], ", ", m.origin[2], ", 0.0]">>,
     <<"negate: 0">>,
     <<"occupied_thresh: 0.65">>,
     <<"free_thresh: 0.196">> >>

\* ------------------------------------------------------------ array encoder
\* magic string \x93NUMPY and version 1.0
NPYMagic == <<147, 78, 85, 77, 80, 89>>
NPYVersion == <<1, 0>>

\* TextEncoder().encode(headerDict) before padding:
\* {'descr': '<u1', 'fortran_order': False, 'shape': (<height>, <width>), }
HeaderDict(width, height) ==
  <<123, 39, 100, 101, 115, 99, 114, 39, 58, 32, 39, 60, 117, 49, 39, 44, 32,
    39, 102, 111, 114, 116, 114, 97, 110, 95, 111, 114, 100, 101, 114, 39, 58,
    32, 70, 97, 108, 115, 101, 44, 32, 39, 115, 104, 97, 112, 101, 39, 58, 32,
    40>>
    \o Digits(height) \o <<44, 32>> \o Digits(width) \o <<41, 44, 32, 125>>

\* mutant: the ten bytes before the header text are not counted
PaddingSize_NoPreamble(headerDictLen) ==
  LET totalHeaderSize == headerDictLen
  IN  (64 - (totalHeaderSize % 64)) % 64

\* paddingSize, for a header dictionary of headerDictLen bytes
PaddingSize(headerDictLen) ==
  LET totalHeaderSize == 10 + headerDictLen
  IN  (64 - (totalHeaderSize % 64)) % 64

\* ' '.repeat(n)
Spaces(n) == [k \in 1..n |-> 32]

\* what is appended to headerDict: the padding spaces and the newline
PadText(headerDictLen) ==
  LET paddingSize == PaddingSize(headerDictLen)
  IN  Spaces(IF paddingSize > 0 THEN paddingSize - 1 ELSE 0) \o <<10>>

\* finalHeaderBytes
FinalHeader(width, height) ==
  HeaderDict(width, height) \o PadText(Len(HeaderDict(width, height)))

\* mutant: the length field is written high byte first
HeaderLenBytes_BigEndian(headerLen) == <<(headerLen \div 256) % 256, headerLen % 256>>

\* headerLenBytes: headerLen & 0xFF, (headerLen >> 8) & 0xFF
HeaderLenBytes(headerLen) == <<headerLen % 256, (headerLen \div 256) % 256>>

\* what generateNPY puts before the array bytes
NPYPreamble(width, height) ==
  NPYMagic \o NPYVersion \o HeaderLenBytes(Len(FinalHeader(width, height)))
    \o FinalHeader(width, height)

\* generateNPY; g is a byte array indexed from 0
generateNPY(g, width, height) ==
  NPYPreamble(width, height) \o BytesOf(g, Cardinality(DOMAIN g))

\* mutant: occupied and free are the wrong way round
PlannerValue_Inverted(v) == IF v = 0 THEN 0 ELSE IF v = 254 THEN 1 ELSE 0

\* the value stored in plannerGrid[i] for the grid value v
PlannerValue(v) == IF v = 0 THEN 1 ELSE IF v = 254 THEN 0 ELSE 0

RECURSIVE RemapLoop_Reversed(_, _, _)
\* mutant: the planner array is filled from its far end
RemapLoop_Reversed(g, plannerGrid, i) ==
  IF i >= Cardinality(DOMAIN g) THEN plannerGrid
  ELSE RemapLoop_Reversed(g,
         IF Cardinality(DOMAIN g) - 1 - i \in DOMAIN plannerGrid
         THEN [plannerGrid EXCEPT ![Cardinality(DOMAIN g) - 1 - i] = PlannerValue(g[i])]
         ELSE plannerGrid,
         i + 1)

RECURSIVE RemapLoop(_, _, _)
\* for (i = 0; i < grid.length; i++) plannerGrid[i] = ...
RemapLoop(g, plannerGrid, i) ==
  IF i >= Cardinality(DOMAIN g) THEN plannerGrid
  ELSE RemapLoop(g,
                 IF i \in DOMAIN plannerGrid
                 THEN [plannerGrid EXCEPT ![i] = PlannerValue(g[i])]
                 ELSE plannerGrid,
                 i + 1)

generatePlannerNPY(g, width, height) ==
  generateNPY(RemapLoop(g, ZeroBytes(width * height), 0), width, height)

\* ------------------------------------------------------------ state machine
\* one call of generateOccupancyGrid: its arguments, its locals, its results
VARIABLES mapInfo, objects, grid, pc, oi, gx, gy, pgmData, yamlContent,
          plannerNpyData
\* history: the grid the previous call worked on (<<>> before the first call)
VARIABLES lastGrid
\* generateNPY on its own: the dimensions it is given, the preamble it builds
VARIABLES npyDims, npyPreamble
\* downloadOccupancyGrid: the calls made, the pending timers, the downloads
VARIABLES dlCalls, timers, delivered
\* the per-object loops run as concurrent processes: each one's position
VARIABLES procs
\* isPointInShape on its own: its arguments, its position, the polygon
\* loop's i, j and inside, what it returns, the divisors it has divided by
VARIABLES ptShape, ptPoint, ptPc, ptI, ptJ, ptInside, ptResult, ptDivisors
\* the editor component's state (edObjects is its `objects`), the pending
\* setTimeout callbacks with the values their closures hold, the clock that
\* Date.now() reads (it moves on with every gesture and every callback), and
\* a log of the last handler run
VARIABLES edObjects, history, historyIndex, mode, drawMode, triangleType,
          selectedId, tempPoints, isDragging, edTimers, edMade, edLog

rasterVars == <<mapInfo, objects, grid, pc, oi, gx, gy, pgmData, yamlContent,
                plannerNpyData>>
npyVars == <<npyDims, npyPreamble>>
dlVars == <<dlCalls, timers, delivered>>
ptVars == <<ptShape, ptPoint, ptPc, ptI, ptJ, ptInside, ptResult, ptDivisors>>
\* the components of the specifications that stand on their own
edVars == <<edObjects, history, historyIndex, mode, drawMode, triangleType,
           selectedId, tempPoints, isDragging, edTimers, edMade, edLog>>
elsewhere == <<ptVars, edVars>>
vars == <<rasterVars, lastGrid, npyVars, dlVars, procs, elsewhere>>
\* what a step of generateOccupancyGrid never touches
aside == <<lastGrid, npyVars, dlVars, procs, elsewhere>>

\* the components that a specification leaves out stay as they start
RasterIdle ==
  /\ mapInfo = <<>> /\ objects = <<>> /\ grid = <<>> /\ pc = "idle"
  /\ oi = 0 /\ gx = 0 /\ gy = 0
  /\ pgmData = <<>> /\ yamlContent = <<>> /\ plannerNpyData = <<>>
NpyIdle == npyDims = <<>> /\ npyPreamble = <<>>
DownloadIdle == dlCalls = <<>> /\ timers = {} /\ delivered = <<>>
PointIdle ==
  /\ ptShape = <<>> /\ ptPoint = <<>> /\ ptPc = "idle" /\ ptI = 0 /\ ptJ = 0
  /\ ptInside = FALSE /\ ptResult = "none" /\ ptDivisors = {}
EditorIdle ==
  /\ edObjects = <<>> /\ history = <<>> /\ historyIndex = -1
  /\ mode = "idle" /\ drawMode = "center" /\ triangleType = "custom"
  /\ selectedId = <<"null", 0>> /\ tempPoints = <<>> /\ isDragging = FALSE
  /\ edTimers = <<>> /\ edMade = 0 /\ edLog = <<>>
ElsewhereIdle == PointIdle /\ EditorIdle

W == gridWidth(mapInfo)
H == gridHeight(mapInfo)
CurObj == objects[oi]
CurRange == GridRange(mapInfo, CurObj.shape)

\* generateOccupancyGrid has been called and has allocated its grid
Init ==
  /\ mapInfo \in MapInfos
  /\ objects \in ObjectLists
  /\ grid = NewGrid(mapInfo)
  /\ pc = "forEach"
  /\ oi = 1
  /\ gx = 0
  /\ gy = 0
  /\ pgmData = <<>>
  /\ yamlContent = <<>>
  /\ plannerNpyData = <<>>
  /\ lastGrid = <<>>
  /\ NpyIdle /\ DownloadIdle /\ procs = <<>> /\ ElsewhereIdle

\* forEach reaches a robot or a landmark: return
SkipObject ==
  /\ pc = "forEach" /\ oi <= Len(objects) /\ IsExcluded(CurObj)
  /\ oi' = oi + 1
  /\ UNCHANGED <<mapInfo, objects, grid, pc, gx, gy, pgmData, yamlContent, plannerNpyData>>
  /\ UNCHANGED aside

\* forEach reaches any other object: bounding box, gy = minGrid.gridY
BeginObject ==
  /\ pc = "forEach" /\ oi <= Len(objects) /\ ~IsExcluded(CurObj)
  /\ gy' = CurRange.minY
  /\ pc' = "rows"
  /\ UNCHANGED <<mapInfo, objects, grid, oi, gx, pgmData, yamlContent, plannerNpyData>>
  /\ UNCHANGED aside

\* outer loop test true: gx = minGrid.gridX
BeginRow ==
  /\ pc = "rows" /\ ~CurRange.nan /\ gy <= CurRange.maxY
  /\ gx' = CurRange.minX
  /\ pc' = "cells"
  /\ UNCHANGED <<mapInfo, objects, grid, oi, gy, pgmData, yamlContent, plannerNpyData>>
  /\ UNCHANGED aside

\* outer loop test false: the callback returns
EndObject ==
  /\ pc = "rows" /\ ~(~CurRange.nan /\ gy <= CurRange.maxY)
  /\ oi' = oi + 1
  /\ pc' = "forEach"
  /\ UNCHANGED <<mapInfo, objects, grid, gx, gy, pgmData, yamlContent, plannerNpyData>>
  /\ UNCHANGED aside

\* inner loop body for cell (gx, gy), then gx++
VisitCell ==
  /\ pc = "cells" /\ gx <= CurRange.maxX
  /\ grid' = CellStep(mapInfo, grid, CurObj.shape, gx, gy)
  /\ gx' = gx + 1
  /\ UNCHANGED <<mapInfo, objects, pc, oi, gy, pgmData, yamlContent, plannerNpyData>>
  /\ UNCHANGED aside

\* inner loop test false: gy++
EndRow ==
  /\ pc = "cells" /\ gx > CurRange.maxX
  /\ gy' = gy + 1
  /\ pc' = "rows"
  /\ UNCHANGED <<mapInfo, objects, grid, oi, gx, pgmData, yamlContent, plannerNpyData>>
  /\ UNCHANGED aside

\* forEach is over: encode the grid and return
Encode ==
  /\ pc = "forEach" /\ oi > Len(objects)
  /\ pgmData' = generatePGM(grid, W, H)
  /\ yamlContent' = generateYAML(mapInfo, W, H)
  /\ plannerNpyData' = generatePlannerNPY(grid, W, H)
  /\ pc' = "done"
  /\ UNCHANGED <<mapInfo, objects, grid, oi, gx, gy>>
  /\ UNCHANGED aside

Next ==
  \/ SkipObject
  \/ BeginObject
  \/ BeginRow
  \/ EndObject
  \/ VisitCell
  \/ EndRow
  \/ Encode

Spec == Init /\ [][Next]_vars

\* ------------------------------------------- generateNPY on its own
RECURSIVE Pow10(_)
Pow10(k) == IF k = 0 THEN 1 ELSE 10 * Pow10(k - 1)

\* the smallest and the largest number of every digit count up to MaxDigits
DimValues == {Pow10(k - 1) : k \in 1..MaxDigits} \cup {Pow10(k) - 1 : k \in 1..MaxDigits}

InitNPY ==
  /\ npyDims \in [width : DimValues, height : DimValues]
  /\ npyPreamble = <<>>
  /\ RasterIdle /\ lastGrid = <<>> /\ DownloadIdle /\ procs = <<>> /\ ElsewhereIdle

\* generateNPY(grid, width, height) builds magic, version, length and header
BuildPreamble ==
  /\ npyPreamble = <<>>
  /\ npyPreamble' = NPYPreamble(npyDims.width, npyDims.height)
  /\ UNCHANGED <<npyDims, rasterVars, lastGrid, dlVars, procs, elsewhere>>

NextNPY == BuildPreamble

SpecNPY == InitNPY /\ [][NextNPY]_vars

\* --------------------------------------------------- downloadOccupancyGrid
\* the arguments of one call; the three payloads are opaque values
Args(mapName, v) ==
  [mapName |-> mapName, pgmData |-> <<"pgm", v>>, yamlContent |-> <<"yaml", v>>,
   plannerNpyData |-> <<"npy", v>>]

ExportArgs == {Args("lab", 1), Args("hall", 2), Args("lab", 3), Args("hall", 1)}

\* link.download = name; link.href = a blob of content; link.click()
Click(c, name, content) == [call |-> c, download |-> name, content |-> content]

InitDL ==
  /\ dlCalls = <<>> /\ timers = {} /\ delivered = <<>>
  /\ RasterIdle /\ lastGrid = <<>> /\ NpyIdle /\ procs = <<>> /\ ElsewhereIdle

\* mutant: both timers are set by the call itself
Download_AllAtOnce(a) ==
  /\ Len(dlCalls) < MaxCalls
  /\ dlCalls' = Append(dlCalls, a)
  /\ delivered' = Append(delivered,
                         Click(Len(dlCalls) + 1, <<a.mapName, ".pgm">>, a.pgmData))
  /\ timers' = timers \cup {[call |-> Len(dlCalls) + 1, fn |-> "yaml"],
                            [call |-> Len(dlCalls) + 1, fn |-> "npy"]}
  /\ UNCHANGED <<rasterVars, lastGrid, npyVars, procs, elsewhere>>

\* the body of downloadOccupancyGrid: the .pgm click, then setTimeout(..., 100)
Download(a) ==
  /\ Len(dlCalls) < MaxCalls
  /\ dlCalls' = Append(dlCalls, a)
  /\ delivered' = Append(delivered,
                         Click(Len(dlCalls) + 1, <<a.mapName, ".pgm">>, a.pgmData))
  /\ timers' = timers \cup {[call |-> Len(dlCalls) + 1, fn |-> "yaml"]}
  /\ UNCHANGED <<rasterVars, lastGrid, npyVars, procs, elsewhere>>

\* mutant: the callback reads the arguments of the latest call, as it would
\* if they were kept in variables shared by all calls
YamlTimer_LatestCall(t) ==
  /\ t \in timers /\ t.fn = "yaml"
  /\ delivered' = Append(delivered,
                         Click(t.call, <<dlCalls[Len(dlCalls)].mapName, ".yaml">>,
                               dlCalls[Len(dlCalls)].yamlContent))
  /\ timers' = (timers \ {t}) \cup {[call |-> t.call, fn |-> "npy"]}
  /\ UNCHANGED <<dlCalls, rasterVars, lastGrid, npyVars, procs, elsewhere>>

\* the outer timer callback: the .yaml click, then the inner setTimeout
YamlTimer(t) ==
  /\ t \in timers /\ t.fn = "yaml"
  /\ delivered' = Append(delivered,
                         Click(t.call, <<dlCalls[t.call].mapName, ".yaml">>,
                               dlCalls[t.call].yamlContent))
  /\ timers' = (timers \ {t}) \cup {[call |-> t.call, fn |-> "npy"]}
  /\ UNCHANGED <<dlCalls, rasterVars, lastGrid, npyVars, procs, elsewhere>>

\* the inner timer callback: the _planner.npy click
NpyTimer(t) ==
  /\ t \in timers /\ t.fn = "npy"
  /\ delivered' = Append(delivered,
                         Click(t.call, <<dlCalls[t.call].mapName, "_planner.npy">>,
                               dlCalls[t.call].plannerNpyData))
  /\ timers' = timers \ {t}
  /\ UNCHANGED <<dlCalls, rasterVars, lastGrid, npyVars, procs, elsewhere>>

CallDownload == \E a \in ExportArgs : Download(a)
FireYaml == \E t \in timers : YamlTimer(t)
FireNpy == \E t \in timers : NpyTimer(t)

NextDL ==
  \/ CallDownload
  \/ FireYaml
  \/ FireNpy

\* a pending timer fires in the end; nothing orders the timers of different calls
SpecDL == InitDL /\ [][NextDL]_vars /\ WF_vars(FireYaml) /\ WF_vars(FireNpy)

\* ------------------------- the per-object loops as concurrent processes
\* Process k runs the forEach callback of objects[k] on the shared grid.  Its
\* only shared access is the store of setGridCell, so one step is one pass
\* through the inner loop body; the loop counters are private.
ParMaps == {m \in MapInfos : m.name \in {"lab", "hall"}}

ParPool ==
  { MapObject("wall", Circle(<<4, 3>>, 2)),
    MapObject("wall", Rectangle(<<2, 2>>, 4, 2, "atan(4/3)")),
    MapObject("zone", Polygon("polygon", <<2, 2>>,
              << <<0, 0>>, <<5, 0>>, <<5, 2>>, <<2, 2>>, <<2, 5>>, <<0, 5>> >>)),
    MapObject("robot", Circle(<<4, 3>>, 2)) }

ParLists == UNION { [1..n -> ParPool] : n \in 0..MaxProcs }

ProcRange(k) == GridRange(mapInfo, objects[k].shape)

InitPar ==
  /\ mapInfo \in ParMaps
  /\ objects \in ParLists
  /\ grid = NewGrid(mapInfo)
  /\ pc = "parallel"
  /\ oi = 0 /\ gx = 0 /\ gy = 0
  /\ pgmData = <<>> /\ yamlContent = <<>> /\ plannerNpyData = <<>>
  /\ procs = [k \in 1..Len(objects) |-> [st |-> "todo", gx |-> 0, gy |-> 0]]
  /\ lastGrid = <<>> /\ NpyIdle /\ DownloadIdle /\ ElsewhereIdle

\* process k enters the callback: skip, or bounding box and first cell
ParBegin(k) ==
  /\ procs[k].st = "todo"
  /\ procs' = [procs EXCEPT ![k] =
       IF \/ IsExcluded(objects[k]) \/ ProcRange(k).nan
          \/ ProcRange(k).minY > ProcRange(k).maxY
          \/ ProcRange(k).minX > ProcRange(k).maxX
       THEN [st |-> "done", gx |-> 0, gy |-> 0]
       ELSE [st |-> "run", gx |-> ProcRange(k).minX, gy |-> ProcRange(k).minY]]
  /\ UNCHANGED <<mapInfo, objects, grid, pc, oi, gx, gy, pgmData, yamlContent,
                 plannerNpyData, lastGrid, npyVars, dlVars, elsewhere>>

\* process k runs the loop body for its cell and moves to its next cell
ParVisit(k) ==
  /\ procs[k].st = "run"
  /\ grid' = CellStep(mapInfo, grid, objects[k].shape, procs[k].gx, procs[k].gy)
  /\ procs' = [procs EXCEPT ![k] =
       IF procs[k].gx < ProcRange(k).maxX
       THEN [@ EXCEPT !.gx = @ + 1]
       ELSE IF procs[k].gy < ProcRange(k).maxY
       THEN [@ EXCEPT !.gx = ProcRange(k).minX, !.gy = @ + 1]
       ELSE [st |-> "done", gx |-> 0, gy |-> 0]]
  /\ UNCHANGED <<mapInfo, objects, pc, oi, gx, gy, pgmData, yamlContent,
                 plannerNpyData, lastGrid, npyVars, dlVars, elsewhere>>

ParBeginSome == \E k \in DOMAIN procs : ParBegin(k)
ParVisitSome == \E k \in DOMAIN procs : ParVisit(k)

NextPar ==
  \/ ParBeginSome
  \/ ParVisitSome

SpecPar == InitPar /\ [][NextPar]_vars

\* ------------------------------------ generateOccupancyGrid called again
CallLists == UNION { [1..n -> ParPool] : n \in 0..MaxCallObjs }

InitCalls ==
  /\ mapInfo \in MapInfos
  /\ objects \in CallLists
  /\ grid = NewGrid(mapInfo)
  /\ pc = "forEach"
  /\ oi = 1 /\ gx = 0 /\ gy = 0
  /\ pgmData = <<>> /\ yamlContent = <<>> /\ plannerNpyData = <<>>
  /\ lastGrid = <<>>
  /\ NpyIdle /\ DownloadIdle /\ procs = <<>> /\ ElsewhereIdle

\* mutant: the buffer of the previous call is used again when it has the size
NewCall_ReusesGrid ==
  /\ pc = "done"
  /\ \E m \in MapInfos, objs \in CallLists :
       /\ mapInfo' = m
       /\ objects' = objs
       /\ grid' = IF Cardinality(DOMAIN grid) = gridWidth(m) * gridHeight(m)
                  THEN grid ELSE NewGrid(m)
  /\ lastGrid' = grid
  /\ pc' = "forEach"
  /\ oi' = 1 /\ gx' = 0 /\ gy' = 0
  /\ pgmData' = <<>> /\ yamlContent' = <<>> /\ plannerNpyData' = <<>>
  /\ UNCHANGED <<npyVars, dlVars, procs, elsewhere>>

\* the previous call has returned; the next one starts with its own
\* arguments, a new grid and new locals
NewCall ==
  /\ pc = "done"
  /\ \E m \in MapInfos, objs \in CallLists :
       /\ mapInfo' = m
       /\ objects' = objs
       /\ grid' = NewGrid(m)
  /\ lastGrid' = grid
  /\ pc' = "forEach"
  /\ oi' = 1 /\ gx' = 0 /\ gy' = 0
  /\ pgmData' = <<>> /\ yamlContent' = <<>> /\ plannerNpyData' = <<>>
  /\ UNCHANGED <<npyVars, dlVars, procs, elsewhere>>

NextCalls ==
  \/ SkipObject
  \/ BeginObject
  \/ BeginRow
  \/ EndObject
  \/ VisitCell
  \/ EndRow
  \/ Encode
  \/ NewCall

SpecCalls == InitCalls /\ [][NextCalls]_vars

\* ----------------------------------------- the encoders, in any order
\* the forEach has returned; the three encoders have yet to run
InitEnc ==
  /\ mapInfo \in MapInfos
  /\ objects \in CallLists
  /\ grid = Rasterize(mapInfo, objects)
  /\ pc = "encoders"
  /\ oi = Len(objects) + 1 /\ gx = 0 /\ gy = 0
  /\ pgmData = <<>> /\ yamlContent = <<>> /\ plannerNpyData = <<>>
  /\ lastGrid = <<>>
  /\ NpyIdle /\ DownloadIdle /\ procs = <<>> /\ ElsewhereIdle

\* mutant: the flip is done in the grid itself instead of in a new pgmGrid
RunPGM_InPlace ==
  /\ pc = "encoders" /\ pgmData = <<>>
  /\ grid' = FlipLoop(grid, W, H, grid, 0, 0)
  /\ pgmData' = PGMHeader(W, H) \o BytesOf(grid', W * H)
  /\ UNCHANGED <<mapInfo, objects, pc, oi, gx, gy, yamlContent, plannerNpyData>>
  /\ UNCHANGED aside

\* const pgmData = generatePGM(grid, gridWidth, gridHeight): it reads grid
\* and writes a Uint8Array of its own
RunPGM ==
  /\ pc = "encoders" /\ pgmData = <<>>
  /\ pgmData' = generatePGM(grid, W, H)
  /\ grid' = grid
  /\ UNCHANGED <<mapInfo, objects, pc, oi, gx, gy, yamlContent, plannerNpyData>>
  /\ UNCHANGED aside

\* const yamlContent = generateYAML(mapInfo, gridWidth, gridHeight)
RunYAML ==
  /\ pc = "encoders" /\ yamlContent = <<>>
  /\ yamlContent' = generateYAML(mapInfo, W, H)
  /\ grid' = grid
  /\ UNCHANGED <<mapInfo, objects, pc, oi, gx, gy, pgmData, plannerNpyData>>
  /\ UNCHANGED aside

\* const plannerNpyData = generatePlannerNPY(grid, gridWidth, gridHeight): it
\* reads grid and writes a plannerGrid of its own
RunPlannerNPY ==
  /\ pc = "encoders" /\ plannerNpyData = <<>>
  /\ plannerNpyData' = generatePlannerNPY(grid, W, H)
  /\ grid' = grid
  /\ UNCHANGED <<mapInfo, objects, pc, oi, gx, gy, pgmData, yamlContent>>
  /\ UNCHANGED aside

\* return { pgmData, yamlContent, plannerNpyData, gridWidth, gridHeight }
ReturnResults ==
  /\ pc = "encoders"
  /\ pgmData # <<>> /\ yamlContent # <<>> /\ plannerNpyData # <<>>
  /\ pc' = "done"
  /\ UNCHANGED <<mapInfo, objects, grid, oi, gx, gy, pgmData, yamlContent,
                 plannerNpyData>>
  /\ UNCHANGED aside

NextEnc ==
  \/ RunPGM
  \/ RunYAML
  \/ RunPlannerNPY
  \/ ReturnResults

SpecEnc == InitEnc /\ [][NextEnc]_vars

\* ------------------------------------------------- isPointInShape on its own
\* shapes of every variant; the editor's radius field takes any number, a
\* negative one as well
ProbeShapes ==
  { Circle(<<1, 1>>, 2),
    Circle(<<0, -1>>, 0),
    Circle(<<0, 0>>, -1),
    Rectangle(<<0, 0>>, 2, 1, "0"),
    Rectangle(<<0, 0>>, 2, 1, "undefined"),
    Rectangle(<<0, 0>>, 2, 1, "pi/2"),
    Rectangle(<<1, 0>>, 4, 2, "atan(4/3)"),
    Rectangle(<<0, 1>>, 4, 2, "-atan(3/4)"),
    Rectangle(<<0, 0>>, 200, 100, "0"),
    Polygon("triangle", <<0, 0>>, << <<-2, -1>>, <<2, -1>>, <<0, 2>> >>),
    Polygon("triangle", <<0, 0>>, << <<-2, 2>>, <<1, 1>>, <<-1, -2>> >>),
    Polygon("polygon", <<0, 0>>,
            << <<-2, -2>>, <<2, -2>>, <<2, 0>>, <<0, 0>>, <<0, 2>>, <<-2, 2>> >>),
    Polygon("polygon", <<0, 0>>, <<>>),
    Polygon("polygon", <<0, 0>>, << <<1, 1>> >>),
    Polygon("polygon", <<0, 0>>, << <<0, -1>>, <<1, 1>> >>),
    Ellipse(<<0, 0>>, 2) }

\* points (scaled) on a grid of tenths of a unit, and two points far out
ProbeCoords == (-MaxProbe)..MaxProbe
ProbePts ==
  [x : ProbeCoords, y : ProbeCoords]
    \cup { [x |-> 990, y |-> 490], [x |-> 1010, y |-> 0] }

InitPoint ==
  /\ ptShape \in ProbeShapes
  /\ ptPoint \in ProbePts
  /\ ptPc = "call"
  /\ ptI = 0 /\ ptJ = 0 /\ ptInside = FALSE
  /\ ptResult = "none"
  /\ ptDivisors = {}
  /\ RasterIdle /\ lastGrid = <<>> /\ NpyIdle /\ DownloadIdle /\ procs = <<>>
  /\ EditorIdle

ptFrame == <<rasterVars, lastGrid, npyVars, dlVars, procs, edVars>>

\* if (shape.type === 'circle') { ... return ... }
TestCircle ==
  /\ ptPc = "call" /\ ptShape.type = "circle"
  /\ ptResult' = isPointInShape(ptPoint, ptShape)
  /\ ptPc' = "return"
  /\ UNCHANGED <<ptShape, ptPoint, ptI, ptJ, ptInside, ptDivisors, ptFrame>>

\* if (shape.type === 'rectangle') { ... return ... }
TestRectangle ==
  /\ ptPc = "call" /\ ptShape.type = "rectangle"
  /\ ptResult' = isPointInShape(ptPoint, ptShape)
  /\ ptPc' = "return"
  /\ UNCHANGED <<ptShape, ptPoint, ptI, ptJ, ptInside, ptDivisors, ptFrame>>

\* let inside = false; for (let i = 0, j = vertices.length - 1; ...
\* (i and j count from 1 here)
PolyEnter ==
  /\ ptPc = "call" /\ ptShape.type \in {"polygon", "triangle"}
  /\ ptInside' = FALSE
  /\ ptI' = 1
  /\ ptJ' = Len(ptShape.vertices)
  /\ ptPc' = "loop"
  /\ UNCHANGED <<ptShape, ptPoint, ptResult, ptDivisors, ptFrame>>

\* one iteration: the straddle test, then (only if it is true) the division
\* and the comparison; if (intersect) inside = !inside; j = i++
PolyStep ==
  /\ ptPc = "loop" /\ ptI <= Len(ptShape.vertices)
  /\ LET vi == ptShape.vertices[ptI]
         vj == ptShape.vertices[ptJ]
     IN  /\ ptDivisors' = IF Straddles(ptPoint, vi, vj)
                          THEN ptDivisors \cup {vj[2] - vi[2]}
                          ELSE ptDivisors
         /\ ptInside' = IF Intersect(ptPoint, vi, vj) THEN ~ptInside ELSE ptInside
  /\ ptJ' = ptI
  /\ ptI' = ptI + 1
  /\ UNCHANGED <<ptShape, ptPoint, ptPc, ptResult, ptFrame>>

\* i < vertices.length fails: return inside
PolyReturn ==
  /\ ptPc = "loop" /\ ptI > Len(ptShape.vertices)
  /\ ptResult' = ptInside
  /\ ptPc' = "return"
  /\ UNCHANGED <<ptShape, ptPoint, ptI, ptJ, ptInside, ptDivisors, ptFrame>>

\* no variant matched: return false
ReturnFalse ==
  /\ ptPc = "call"
  /\ ptShape.type \notin {"circle", "rectangle", "polygon", "triangle"}
  /\ ptResult' = FALSE
  /\ ptPc' = "return"
  /\ UNCHANGED <<ptShape, ptPoint, ptI, ptJ, ptInside, ptDivisors, ptFrame>>

NextPoint ==
  \/ TestCircle
  \/ TestRectangle
  \/ PolyEnter
  \/ PolyStep
  \/ PolyReturn
  \/ ReturnFalse

SpecPoint == InitPoint /\ [][NextPoint]_vars

\* --------------------------------------------------------------- the editor
\* The React component of src/unnamed/part_000.  Lengths are in thousandths
\* of a world unit, the grain of +world.x.toFixed(3).  A handler reads the
\* state of the render that created it; a setTimeout callback therefore runs
\* with the state of the render in which its click was handled, kept in the
\* timer's cl field.
NullId == <<"null", 0>>

\* where the canvas is clicked: the distances between these points are whole
\* numbers (10, 10, 16) and so are the midpoints
ClickSeq == << <<0, 0>>, <<6, 8>>, <<0, 16>> >>
ClickPts == {ClickSeq[n] : n \in 1..Len(ClickSeq)}

\* the clicks of a shape that takes several go round ClickSeq from any start
NextInSeq(pt) ==
  LET n == CHOOSE m \in 1..Len(ClickSeq) : ClickSeq[m] = pt
  IN  ClickSeq[(n % Len(ClickSeq)) + 1]
ClickChoices(pts) ==
  IF pts = <<>> THEN ClickPts ELSE {NextInSeq(pts[Len(pts)])}

\* where a dragged object is moved to
DragPts == {<<6, 8>>}

\* Math.sqrt of a perfect square
Sqrt(n) == CHOOSE r \in 0..n : r * r = n

\* +(n / d).toFixed(3): the nearest thousandth
RoundDiv(n, d) == (2 * n + d) \div (2 * d)

RECURSIVE SumOf(_, _)
\* tempPoints.reduce((sum, v) => sum + v[c], 0)
SumOf(pts, c) == IF pts = <<>> THEN 0 ELSE pts[1][c] + SumOf(Tail(pts), c)

\* JSON.parse(JSON.stringify(objs)): every object is built anew, field by
\* field; the values are finite numbers and strings, which JSON keeps
DeepCopy(objs) ==
  [k \in 1..Len(objs) |-> [f \in DOMAIN objs[k] |-> objs[k][f]]]

\* what a handler of the current render sees
Closure ==
  [objects |-> edObjects, history |-> history, historyIndex |-> historyIndex,
   tempPoints |-> tempPoints, drawMode |-> drawMode, triangleType |-> triangleType]

\* mutant: the new entry is pushed onto the whole history
saveHistory_NoSlice(cl, newObjects) == Append(cl.history, DeepCopy(newObjects))

\* saveHistory: the newHistory it stores (historyIndex becomes its length - 1)
saveHistory(cl, newObjects) ==
  Append(SubSeq(cl.history, 1, cl.historyIndex + 1), DeepCopy(newObjects))

\* the object addObject builds, `${type}_${Date.now()}` being <<type, now>>
MapObj(cl, type, now, shape) ==
  [id |-> <<type, now>>,
   name |-> <<type, Cardinality({k \in 1..Len(cl.objects) :
                                   cl.objects[k].shape.type = type}) + 1>>,
   type |-> "obstacle",
   shape |-> shape]

\* addObject(type, world) run with the closure cl: whether it reaches the
\* final setObjects (ok), whether it calls setTempPoints([]) (clear), and
\* the object it builds
addObject(cl, type, world, now) ==
  IF type = "circle" THEN
    \* angleMap['center'] is null and angleMap has no 'two-points': no offset
    [ok |-> TRUE, clear |-> FALSE,
     obj |-> MapObj(cl, type, now, [type |-> "circle", center |-> world, radius |-> 500])]
  ELSE IF type = "rectangle" THEN
    IF cl.drawMode = "two-points" /\ Len(cl.tempPoints) = 2 THEN
      LET p1 == cl.tempPoints[1]
          p2 == cl.tempPoints[2]
          dx == p2[1] - p1[1]
          dy == p2[2] - p1[2]
      IN  [ok |-> TRUE, clear |-> TRUE,
           obj |-> MapObj(cl, type, now,
                     [type |-> "rectangle",
                      center |-> <<(p1[1] + p2[1]) \div 2, (p1[2] + p2[2]) \div 2>>,
                      width |-> Sqrt(dx * dx + dy * dy), height |-> 600,
                      rotation |-> <<"atan2", dy, dx>>])]
    ELSE
      \* offsetMap[drawMode] || [0, 0] is [0, 0] for 'center' and 'two-points'
      [ok |-> TRUE, clear |-> FALSE,
       obj |-> MapObj(cl, type, now,
                 [type |-> "rectangle", center |-> world,
                  width |-> 1000, height |-> 600, rotation |-> <<"rad", 0, 0>>])]
  ELSE IF type = "polygon" THEN
    IF Len(cl.tempPoints) >= 3 THEN
      [ok |-> TRUE, clear |-> TRUE,
       obj |-> MapObj(cl, type, now,
                 [type |-> "polygon",
                  center |-> <<RoundDiv(SumOf(cl.tempPoints, 1), Len(cl.tempPoints)),
                               RoundDiv(SumOf(cl.tempPoints, 2), Len(cl.tempPoints))>>,
                  vertices |-> cl.tempPoints])]
    ELSE [ok |-> FALSE, clear |-> FALSE, obj |-> <<>>]
  ELSE \* 'triangle'
    IF cl.triangleType = "custom" /\ Len(cl.tempPoints) = 3 THEN
      [ok |-> TRUE, clear |-> TRUE,
       obj |-> MapObj(cl, type, now,
                 [type |-> "triangle",
                  center |-> <<RoundDiv(SumOf(cl.tempPoints, 1), 3),
                               RoundDiv(SumOf(cl.tempPoints, 2), 3)>>,
                  vertices |-> cl.tempPoints])]
    ELSE IF cl.triangleType # "custom" THEN
      \* triangleType 'equilateral', size 1.0: h = 0.866..., and toFixed(3)
      \* turns 2h/3 into 0.577 and h/3 into 0.289
      [ok |-> TRUE, clear |-> FALSE,
       obj |-> MapObj(cl, type, now,
                 [type |-> "triangle", center |-> world,
                  vertices |-> << <<world[1], world[2] + 577>>,
                                  <<world[1] - 500, world[2] - 289>>,
                                  <<world[1] + 500, world[2] - 289>> >>])]
    ELSE [ok |-> FALSE, clear |-> FALSE, obj |-> <<>>]

\* the log entry of a handler: its name, whether an undo or redo comes right
\* after a committed edit, the object list before the edit (before the drag
\* for a drag), the points clicked for a deferred add, and how many history
\* entries lay above historyIndex when an edit was committed
CommittedOps == {"add", "deferredAdd", "update", "delete", "clear", "drag"}
LogEntry(op, before, pts) ==
  LET prev == IF op \in {"undo", "redo"} /\ edLog.op \in CommittedOps
              THEN "edit" ELSE "other"
      kept == \/ op \in CommittedOps \cup {"down", "move", "deferredReturn"}
              \/ prev = "edit"
              \/ isDragging
  IN  [op |-> IF op \in CommittedOps \cup {"down", "move", "deferredReturn",
                                           "undo", "redo"}
              THEN op ELSE "other",
       prev |-> prev,
       before |-> IF kept THEN before ELSE <<>>,
       pts |-> pts,
       cut |-> IF op \in CommittedOps THEN Len(history) - (historyIndex + 1) ELSE 0]

edFrame == <<rasterVars, lastGrid, npyVars, dlVars, procs, ptVars>>

\* the component has been mounted
InitEditor ==
  /\ edObjects = <<>> /\ history = <<>> /\ historyIndex = -1
  /\ mode = "select" /\ drawMode = "center" /\ triangleType = "equilateral"
  /\ selectedId = NullId /\ tempPoints = <<>> /\ isDragging = FALSE
  /\ edTimers = <<>> /\ edMade = 0
  /\ edLog = [op |-> "other", prev |-> "other", before |-> <<>>, pts |-> <<>>,
              cut |-> 0]
  /\ RasterIdle /\ lastGrid = <<>> /\ NpyIdle /\ DownloadIdle /\ procs = <<>>
  /\ PointIdle

Item == {k \in 1..Len(edObjects) : edObjects[k].id = selectedId}

\* setObjects(newObjects); saveHistory(newObjects), with the history of cl
Commit(cl, newObjects) ==
  /\ edObjects' = newObjects
  /\ history' = saveHistory(cl, newObjects)
  /\ historyIndex' = Len(history') - 1

\* the state changes of addObject(type, world) run with the closure cl
AddEffects(cl, type, world, op, pts) ==
  LET r == addObject(cl, type, world, edMade + 1)
  IN  /\ IF r.ok
         THEN /\ Commit(cl, Append(cl.objects, r.obj))
              /\ selectedId' = r.obj.id
              /\ mode' = "select"
              /\ edLog' = LogEntry(op, edObjects, pts)
         ELSE /\ UNCHANGED <<edObjects, history, historyIndex, selectedId, mode>>
              /\ edLog' = LogEntry(IF op = "deferredAdd" THEN "deferredReturn"
                                    ELSE "return", edObjects, pts)
      /\ tempPoints' = IF r.clear THEN <<>> ELSE tempPoints

\* a gesture of the user; the clock that Date.now() reads moves on with it
Gesture ==
  /\ edMade < MaxEdits
  /\ edMade' = edMade + 1

\* the branches of handleCanvasClick, by the state of the current render
IsCustom == triangleType = "custom"
IsTwoPoints == drawMode = "two-points"
TempBranch ==
  \/ mode = "polygon"
  \/ mode = "triangle" /\ IsCustom /\ Len(tempPoints) < 2
  \/ mode = "rect" /\ IsTwoPoints /\ Len(tempPoints) = 0
DeferBranch ==
  \/ mode = "triangle" /\ IsCustom /\ Len(tempPoints) = 2
  \/ mode = "rect" /\ IsTwoPoints /\ Len(tempPoints) = 1
AddBranch ==
  \/ mode = "triangle" /\ ~(IsCustom /\ Len(tempPoints) <= 2)
  \/ mode = "circle"
  \/ mode = "rect" /\ ~(IsTwoPoints /\ Len(tempPoints) <= 1)
TypeOfMode ==
  CASE mode = "triangle" -> "triangle" [] mode = "circle" -> "circle"
    [] mode = "rect" -> "rectangle" [] OTHER -> "polygon"

\* handleCanvasClick: the click only adds its point to tempPoints
ClickPoint(world) ==
  /\ Gesture
  /\ ~isDragging /\ TempBranch
  /\ Len(tempPoints) < MaxTempPoints
  /\ tempPoints' = Append(tempPoints, world)
  /\ edLog' = LogEntry("click", edLog.before, <<>>)
  /\ UNCHANGED <<edObjects, history, historyIndex, mode, drawMode, triangleType,
                 selectedId, isDragging, edTimers, edFrame>>

\* handleCanvasClick: the last point of a custom triangle or of a two-points
\* rectangle: setTempPoints(p => [...p, point]) and
\* setTimeout(() => addObject(type, world), 10)
ClickDeferred(world) ==
  /\ Gesture
  /\ ~isDragging /\ DeferBranch
  /\ tempPoints' = Append(tempPoints, world)
  /\ edTimers' = Append(edTimers, [cl |-> Closure, type |-> TypeOfMode, world |-> world])
  /\ edLog' = LogEntry("click", edLog.before, <<>>)
  /\ UNCHANGED <<edObjects, history, historyIndex, mode, drawMode, triangleType,
                 selectedId, isDragging, edFrame>>

\* handleCanvasClick: addObject(type, world) at once
ClickAdd(world) ==
  /\ Gesture
  /\ ~isDragging /\ AddBranch
  /\ AddEffects(Closure, TypeOfMode, world, "add", <<>>)
  /\ UNCHANGED <<drawMode, triangleType, isDragging, edTimers, edFrame>>

\* the setTimeout callback: addObject of the render of its click
TimerFires ==
  /\ edMade' = edMade + 1
  /\ edTimers # <<>>
  /\ LET t == Head(edTimers)
     IN  AddEffects(t.cl, t.type, t.world, "deferredAdd", Append(t.cl.tempPoints, t.world))
  /\ edTimers' = Tail(edTimers)
  /\ UNCHANGED <<drawMode, triangleType, isDragging, edFrame>>

\* the Finish Polygon button: addObject('polygon', { x: 0, y: 0 })
FinishPolygon ==
  /\ Gesture
  /\ mode = "polygon" /\ Len(tempPoints) >= 3
  /\ AddEffects(Closure, "polygon", <<0, 0>>, "add", <<>>)
  /\ UNCHANGED <<drawMode, triangleType, isDragging, edTimers, edFrame>>

\* the toolbar buttons
SetMode(m) ==
  /\ Gesture
  /\ mode' = m /\ tempPoints' = <<>>
  /\ edLog' = LogEntry("tool", edLog.before, <<>>)
  /\ UNCHANGED <<edObjects, history, historyIndex, drawMode, triangleType,
                 selectedId, isDragging, edTimers, edFrame>>
SetDrawMode(d) ==
  /\ Gesture
  /\ drawMode' = d /\ mode' = "rect" /\ tempPoints' = <<>>
  /\ edLog' = LogEntry("tool", edLog.before, <<>>)
  /\ UNCHANGED <<edObjects, history, historyIndex, triangleType,
                 selectedId, isDragging, edTimers, edFrame>>
SetTriangleType(t) ==
  /\ Gesture
  /\ triangleType' = t /\ mode' = "triangle" /\ tempPoints' = <<>>
  /\ edLog' = LogEntry("tool", edLog.before, <<>>)
  /\ UNCHANGED <<edObjects, history, historyIndex, drawMode,
                 selectedId, isDragging, edTimers, edFrame>>

\* handleCanvasMouseDown in select mode on a point of which objects[k] is the
\* first object it is inside of (no lock is set): select it and start dragging
MouseDownOn(k) ==
  /\ Gesture
  /\ mode = "select" /\ k \in 1..Len(edObjects)
  /\ selectedId' = edObjects[k].id
  /\ isDragging' = TRUE
  /\ edLog' = LogEntry("down", edObjects, <<>>)
  /\ UNCHANGED <<edObjects, history, historyIndex, mode, drawMode, triangleType,
                 tempPoints, edTimers, edFrame>>

\* handleCanvasMouseDown in select mode on a point inside no object
MouseDownOff ==
  /\ Gesture
  /\ mode = "select"
  /\ selectedId' = NullId
  /\ edLog' = LogEntry("down", edLog.before, <<>>)
  /\ UNCHANGED <<edObjects, history, historyIndex, mode, drawMode, triangleType,
                 tempPoints, isDragging, edTimers, edFrame>>

\* handleCanvasMouseMove while dragging: the selected object's centre follows
MouseMove(world) ==
  /\ Gesture
  /\ isDragging /\ selectedId # NullId
  /\ edObjects' = [k \in 1..Len(edObjects) |->
                     IF edObjects[k].id = selectedId
                     THEN [edObjects[k] EXCEPT !.shape.center = world]
                     ELSE edObjects[k]]
  /\ edLog' = LogEntry("move", edLog.before, <<>>)
  /\ UNCHANGED <<history, historyIndex, mode, drawMode, triangleType, selectedId,
                 tempPoints, isDragging, edTimers, edFrame>>

\* handleCanvasMouseUp (also bound to onMouseLeave) while dragging:
\* saveHistory(objects); when nothing is dragged it changes none of this state
MouseUp ==
  /\ Gesture
  /\ isDragging
  /\ Commit(Closure, edObjects)
  /\ isDragging' = FALSE
  /\ edLog' = LogEntry("drag", edLog.before, <<>>)
  /\ UNCHANGED <<mode, drawMode, triangleType, selectedId, tempPoints, edTimers,
                 edFrame>>

\* updateItem({ type: value }) from the properties panel of the selected item
updateItem(value) ==
  /\ Gesture
  /\ Item # {}
  /\ Commit(Closure, [k \in 1..Len(edObjects) |->
                        IF edObjects[k].id = selectedId
                        THEN [edObjects[k] EXCEPT !.type = value]
                        ELSE edObjects[k]])
  /\ edLog' = LogEntry("update", edObjects, <<>>)
  /\ UNCHANGED <<mode, drawMode, triangleType, selectedId, tempPoints, isDragging,
                 edTimers, edFrame>>

deleteSelected ==
  /\ Gesture
  /\ Item # {}
  /\ Commit(Closure, SelectSeq(edObjects, LAMBDA o : o.id # selectedId))
  /\ selectedId' = NullId
  /\ edLog' = LogEntry("delete", edObjects, <<>>)
  /\ UNCHANGED <<mode, drawMode, triangleType, tempPoints, isDragging, edTimers,
                 edFrame>>

\* the Clear All button, confirmed
ClearAll ==
  /\ Gesture
  /\ Len(edObjects) > 0
  /\ Commit(Closure, <<>>)
  /\ selectedId' = NullId
  /\ edLog' = LogEntry("clear", edObjects, <<>>)
  /\ UNCHANGED <<mode, drawMode, triangleType, tempPoints, isDragging, edTimers,
                 edFrame>>

\* createNew (confirmed when there are objects)
createNew ==
  /\ Gesture
  /\ edObjects' = <<>> /\ history' = <<>> /\ historyIndex' = -1
  /\ selectedId' = NullId /\ tempPoints' = <<>>
  /\ edLog' = LogEntry("new", <<>>, <<>>)
  /\ UNCHANGED <<mode, drawMode, triangleType, isDragging, edTimers, edFrame>>

\* the object lists of the files that are imported
ImportFiles ==
  { <<>>,
    << [id |-> <<"circle", 0>>, name |-> <<"circle", 1>>, type |-> "wall",
        shape |-> [type |-> "circle", center |-> <<6, 8>>, radius |-> 500]] >> }

\* importJSON: the reader's onload with json.objects = objs
importJSON(objs) ==
  /\ Gesture
  /\ edObjects' = objs /\ history' = <<objs>> /\ historyIndex' = 0
  /\ selectedId' = NullId /\ tempPoints' = <<>>
  /\ edLog' = LogEntry("import", <<>>, <<>>)
  /\ UNCHANGED <<mode, drawMode, triangleType, isDragging, edTimers, edFrame>>

undo ==
  /\ Gesture
  /\ IF historyIndex > 0
     THEN /\ historyIndex' = historyIndex - 1
          /\ edObjects' = DeepCopy(history[(historyIndex - 1) + 1])
     ELSE UNCHANGED <<historyIndex, edObjects>>
  /\ edLog' = LogEntry("undo", edLog.before, <<>>)
  /\ UNCHANGED <<history, mode, drawMode, triangleType, selectedId, tempPoints,
                 isDragging, edTimers, edFrame>>

redo ==
  /\ Gesture
  /\ IF historyIndex < Len(history) - 1
     THEN /\ historyIndex' = historyIndex + 1
          /\ edObjects' = DeepCopy(history[(historyIndex + 1) + 1])
     ELSE UNCHANGED <<historyIndex, edObjects>>
  /\ edLog' = LogEntry("redo", edLog.before, <<>>)
  /\ UNCHANGED <<history, mode, drawMode, triangleType, selectedId, tempPoints,
                 isDragging, edTimers, edFrame>>

CanvasClick == \E world \in ClickChoices(tempPoints) : ClickPoint(world) \/ ClickDeferred(world) \/ ClickAdd(world)
Tool ==
  \/ \E m \in {"select", "circle", "rect", "triangle", "polygon"} : SetMode(m)
  \/ \E d \in {"center", "two-points"} : SetDrawMode(d)
  \/ \E t \in {"equilateral", "custom"} : SetTriangleType(t)
Mouse ==
  \/ \E k \in 1..Len(edObjects) : MouseDownOn(k)
  \/ MouseDownOff
  \/ \E world \in DragPts : MouseMove(world)
  \/ MouseUp
Panel ==
  \/ \E value \in {"wall"} : updateItem(value)
  \/ deleteSelected
  \/ ClearAll
File ==
  \/ createNew
  \/ \E objs \in ImportFiles : importJSON(objs)

NextEditor ==
  \/ CanvasClick
  \/ TimerFires
  \/ FinishPolygon
  \/ Tool
  \/ Mouse
  \/ Panel
  \/ File
  \/ undo
  \/ redo

SpecEditor == InitEditor /\ [][NextEditor]_vars

\* ------------------------------------------------------------ properties
Done == pc = "done"
Cols == 0..(W - 1)
Rows == 0..(H - 1)
InGrid(x, y) == x \in Cols /\ y \in Rows
Contributing(obj) == obj.type \notin {"robot", "landmark"}
KnownShape(obj) == obj.shape.type \in {"circle", "rectangle", "polygon", "triangle"}
\* the centre of cell (x, y) is inside the object's shape
Covers(obj, x, y) == isPointInShape(CellCentre(mapInfo, x, y), obj.shape)
Objs == {objects[k] : k \in 1..Len(objects)}
Permuted(p) == [k \in 1..Len(objects) |-> objects[p[k]]]
\* the inner loop is about to run its body for cell (gx, gy)
AtCell == pc = "cells" /\ gx <= CurRange.maxX

C2_OrderIndependent ==
  Done => \A p \in Permutations(1..Len(objects)) :
            /\ Rasterize(mapInfo, Permuted(p)) = grid
            /\ generatePGM(Rasterize(mapInfo, Permuted(p)), W, H) = pgmData

\* two different contributing objects, each occupying a cell the other one's
\* box visits without occupying it
C2_Witness ==
  /\ Done /\ Len(objects) = 2 /\ objects[1] # objects[2]
  /\ \A o \in Objs : Contributing(o)
  /\ \E x \in Cols, y \in Rows :
       /\ Covers(objects[1], x, y) /\ ~Covers(objects[2], x, y)
       /\ x \in GridRange(mapInfo, objects[2].shape).minX..GridRange(mapInfo, objects[2].shape).maxX
       /\ y \in GridRange(mapInfo, objects[2].shape).minY..GridRange(mapInfo, objects[2].shape).maxY
  /\ \E x \in Cols, y \in Rows :
       Covers(objects[2], x, y) /\ ~Covers(objects[1], x, y)

\* C3: robots and landmarks change no cell: the grid is the one the list
\* without them gives, and a list of robots and landmarks only gives
\* gridWidth*gridHeight cells that are all 254.
C3_Exclusion ==
  Done => /\ grid = Rasterize(mapInfo, SelectSeq(objects, Contributing))
          /\ (\A o \in Objs : ~Contributing(o))
               => /\ DOMAIN grid = 0..(W * H - 1)
                  /\ \A i \in DOMAIN grid : grid[i] = 254

\* a robot and a landmark, each with an in-range cell centre inside its
\* shape, and nothing else
C3_Witness ==
  /\ Done
  /\ \E o \in Objs : o.type = "robot"
  /\ \E o \in Objs : o.type = "landmark"
  /\ \A o \in Objs : ~Contributing(o) /\ \E x \in Cols, y \in Rows : Covers(o, x, y)

C5_Monotonic ==
  [][pc # "done" =>
       \A i \in DOMAIN grid : grid[i] = 0 => (i \in DOMAIN grid' /\ grid'[i] = 0)]_vars

\* a later object's loop stands on a cell an earlier object occupied and
\* whose centre is outside the later object's shape
C5_Witness ==
  /\ AtCell /\ oi >= 2 /\ InGrid(gx, gy)
  /\ grid[gy * W + gx] = 0
  /\ ~Covers(CurObj, gx, gy)

\* C6: appending an object twice gives the grid that appending it once
\* gives, for every list L and every object o.
C6_Idempotent ==
  Done => /\ \A o \in ObjectPool :
               RasterizeObject(mapInfo, RasterizeObject(mapInfo, grid, o), o)
                 = RasterizeObject(mapInfo, grid, o)
          /\ (Len(objects) >= 2 /\ objects[Len(objects)] = objects[Len(objects) - 1])
               => grid = Rasterize(mapInfo, SubSeq(objects, 1, Len(objects) - 1))

\* a list ending in the same contributing object twice, which occupies a cell
C6_Witness ==
  /\ Done /\ Len(objects) >= 2
  /\ objects[Len(objects)] = objects[Len(objects) - 1]
  /\ Contributing(objects[Len(objects)])
  /\ \E x \in Cols, y \in Rows : Covers(objects[Len(objects)], x, y)

\* C7: a write to a cell outside the grid changes nothing (no wrap into the
\* next row, same length), and when the object is finished the in-range
\* cells its shape covers are 0.
C7_OutOfRangeNoOp ==
  [][/\ (pc = "cells" /\ ~InGrid(gx, gy)) => grid' = grid
     /\ DOMAIN grid' = 0..(W * H - 1)
     /\ (pc = "rows" /\ pc' = "forEach") =>
          \A x \in Cols, y \in Rows : Covers(CurObj, x, y) => grid[y * W + x] = 0]_vars

\* the loop writes column gridWidth of a row below the top one, where the
\* wrapped index is a free cell, after occupying a cell of the same row
C7_Witness ==
  /\ AtCell /\ gx = W /\ gy \in 0..(H - 2)
  /\ Covers(CurObj, gx, gy)
  /\ grid[gy * W + gx] = 254
  /\ Covers(CurObj, W - 1, gy) /\ grid[gy * W + W - 1] = 0

\* the cell centres of the map and of a margin of two cells around it
ProbePoints ==
  {CellCentre(mapInfo, x, y) : x \in (-2)..(W + 1), y \in (-2)..(H + 1)}

\* C8: a shape with an unknown tag contains no point, its object changes no
\* cell, and the other objects of the list are rasterized all the same.
C8_UnknownShape ==
  Done => /\ \A o \in Objs : ~KnownShape(o) =>
               \A pt \in ProbePoints : ~isPointInShape(pt, o.shape)
          /\ grid = Rasterize(mapInfo, SelectSeq(objects, KnownShape))

\* a contributing object with an unknown shape, followed by one that occupies
\* a cell
C8_Witness ==
  /\ Done /\ Len(objects) >= 2
  /\ Contributing(objects[1]) /\ ~KnownShape(objects[1])
  /\ Contributing(objects[2]) /\ \E x \in Cols, y \in Rows : Covers(objects[2], x, y)
  /\ \E i \in DOMAIN grid : grid[i] = 0

\* C9: at every point of the call every cell is 254 or 0.
C9_CellValues == \A i \in DOMAIN grid : grid[i] \in {254, 0}

\* in the middle of the loops, with both values in the grid
C9_Witness ==
  /\ AtCell
  /\ \E i \in DOMAIN grid : grid[i] = 0
  /\ \E i \in DOMAIN grid : grid[i] = 254

\* C10: the PGM pixel at image row r, column c is grid[(H-1-r)*W + c], and
\* every grid cell appears exactly once in the payload.
C10_VerticalFlip ==
  Done => LET hdr == Len(PGMHeader(W, H))
              labelled == generatePGM([i \in 0..(W * H - 1) |-> i], W, H)
          IN  /\ Len(pgmData) = hdr + W * H
              /\ \A r \in Rows, c \in Cols :
                   pgmData[hdr + r * W + c + 1] = grid[(H - 1 - r) * W + c]
              /\ \A i \in 0..(W * H - 1) :
                   Cardinality({k \in (hdr + 1)..Len(labelled) : labelled[k] = i}) = 1

\* a grid of at least two rows whose bottom and top rows differ has been encoded
C10_Witness ==
  /\ Done /\ H >= 2
  /\ \E c \in Cols : grid[c] = 0 /\ grid[(H - 1) * W + c] = 254

\* the offset of the array payload, read from the header-length field
NpyPayloadStart(d) == 10 + d[9] + 256 * d[10]
\* the PGM pixel at image row r (from the top), column c
PgmPixel(r, c) == pgmData[Len(PGMHeader(W, H)) + r * W + c + 1]
\* the planner array byte at index i
PlannerByte(i) == plannerNpyData[NpyPayloadStart(plannerNpyData) + i + 1]

\* C11: the PGM pixel at row r, column c is 0 exactly when the planner byte
\* at (H-1-r)*W + c is 1, and 254 exactly when that byte is 0; an occupied
\* cell at grid index 0 is PGM pixel (H-1, 0) and planner byte 0 with value 1.
C11_FlipAcrossArtifacts ==
  Done => /\ \A r \in Rows, c \in Cols :
               /\ PgmPixel(r, c) = 0 <=> PlannerByte((H - 1 - r) * W + c) = 1
               /\ PgmPixel(r, c) = 254 <=> PlannerByte((H - 1 - r) * W + c) = 0
          /\ grid[0] = 0 => PgmPixel(H - 1, 0) = 0 /\ PlannerByte(0) = 1

\* grid index 0 is occupied and the cell above it in the top row is free
C11_Witness ==
  /\ Done /\ H >= 2
  /\ grid[0] = 0 /\ grid[(H - 1) * W] = 254

\* a grid holding 205, 0, 254 and further values that the rasterizer never writes
ProbeGrid == [i \in 0..(W * H - 1) |->
                IF i = 0 THEN UNKNOWN ELSE IF i = 1 THEN 0 ELSE IF i = 2 THEN 254 ELSE i]

\* C12: planner byte i is 1 if grid[i] is 0 and 0 for 254 or any other
\* value; byte i derives from grid[i]; the payload has W*H bytes, all 0 or 1.
C12_PlannerRemap ==
  Done => /\ Len(plannerNpyData) = NpyPayloadStart(plannerNpyData) + W * H
          /\ \A i \in 0..(W * H - 1) :
               /\ PlannerByte(i) = (IF grid[i] = 0 THEN 1 ELSE 0)
               /\ PlannerByte(i) \in {0, 1}
          /\ LET out == generatePlannerNPY(ProbeGrid, W, H)
             IN  \A i \in 0..(W * H - 1) :
                   out[NpyPayloadStart(out) + i + 1] = (IF ProbeGrid[i] = 0 THEN 1 ELSE 0)

\* a grid with an occupied cell whose mirror index is free has been encoded
C12_Witness ==
  /\ Done
  /\ \E i \in 0..(W * H - 1) : grid[i] = 0 /\ grid[W * H - 1 - i] = 254

\* the header text before padding, written out byte by byte:
\* {'descr': '<u1', 'fortran_order': False, 'shape': (H, W), }
ShapeText(width, height) ==
  <<40>> \o Digits(height) \o <<44, 32>> \o Digits(width) \o <<41>>

\* C13: the preamble generateNPY builds (magic, version, length field, padded
\* header text) is a multiple of 64 bytes long, and the header text ends with
\* a newline preceded only by space padding, whatever the digit counts.
C13_Aligned64 ==
  npyPreamble # <<>> =>
    LET n == Len(npyPreamble)
        shape == ShapeText(npyDims.width, npyDims.height)
        \* the dictionary ends "<shape>, }" ; its last byte is at dictEnd
        dictEnd == 10 + 50 + Len(shape) + 3
    IN  /\ n % 64 = 0
        /\ n > dictEnd
        /\ npyPreamble[n] = 10
        /\ SubSeq(npyPreamble, 61, dictEnd) = shape \o <<44, 32, 125>>
        /\ \A k \in (dictEnd + 1)..(n - 1) : npyPreamble[k] = 32
        \* the same for every length the dictionary can have: a number is
        \* rendered in 1 to 21 digits (longer ones in exponent form, shorter)
        /\ \A digits \in 2..42 :
             (10 + (57 + digits) + Len(PadText(57 + digits))) % 64 = 0

\* a preamble has been built for a width and a height of different digit counts
C13_Witness ==
  /\ npyPreamble # <<>>
  /\ npyDims.width >= 1000 /\ npyDims.height < 10

\* C14: bytes 8 and 9 of the array container, little-endian, are the length
\* of the padded header text that follows (which ends at its newline); the
\* payload starts at 10 + that value and the whole output is
\* 10 + headerLen + W*H bytes; bytes 0..5 are \x93NUMPY, bytes 6..7 are 01 00.
C14_HeaderLenField ==
  Done => LET d == plannerNpyData
              headerLen == d[9] + 256 * d[10]
          IN  /\ SubSeq(d, 1, 8) = <<147, 78, 85, 77, 80, 89, 1, 0>>
              /\ Len(d) = 10 + headerLen + W * H
              /\ d[10 + headerLen] = 10
              /\ \A k \in 11..(10 + headerLen - 1) : d[k] # 10
              /\ \A i \in 0..(W * H - 1) :
                   d[10 + headerLen + i + 1] = (IF grid[i] = 0 THEN 1 ELSE 0)

\* the container of a grid with occupied cells and unequal sides has been built
C14_Witness ==
  /\ Done /\ W # H
  /\ \E i \in DOMAIN grid : grid[i] = 0
  /\ Len(plannerNpyData) > 10

\* C15: gridWidth = ceil(width/resolution), gridHeight = ceil(height/resolution),
\* the grid has gridWidth*gridHeight cells, the PGM header says "<W> <H>" and
\* the array header says shape (H, W); width = height = 10 at resolution 0.05
\* (1000 and 5 hundredths) give 200 and 200, "P5\n200 200\n255\n" and (200, 200).
C15_Dimensions ==
  Done => /\ W * mapInfo.resolution >= mapInfo.width
          /\ (W - 1) * mapInfo.resolution < mapInfo.width
          /\ H * mapInfo.resolution >= mapInfo.height
          /\ (H - 1) * mapInfo.resolution < mapInfo.height
          /\ Cardinality(DOMAIN grid) = W * H
          /\ W < 10 /\ H < 10
          /\ SubSeq(pgmData, 1, 11)
               = <<80, 53, 10, 48 + W, 32, 48 + H, 10, 50, 53, 53, 10>>
          /\ SubSeq(plannerNpyData, 61, 66) = <<40, 48 + H, 44, 32, 48 + W, 41>>
          /\ LET m == [width |-> 1000, height |-> 1000, resolution |-> 5]
             IN  /\ gridWidth(m) = 200 /\ gridHeight(m) = 200
                 /\ PGMHeader(gridWidth(m), gridHeight(m))
                      = <<80, 53, 10, 50, 48, 48, 32, 50, 48, 48, 10, 50, 53, 53, 10>>
                 /\ SubSeq(NPYPreamble(gridWidth(m), gridHeight(m)), 61, 70)
                      = <<40, 50, 48, 48, 44, 32, 50, 48, 48, 41>>

\* a map whose width is not a whole number of cells and whose sides differ
C15_Witness ==
  /\ Done /\ W # H
  /\ mapInfo.width % mapInfo.resolution # 0

\* the number of indices of the byte sequence d, from lo to hi, that hold v
CountIn(d, lo, hi, v) == Cardinality({k \in lo..hi : d[k] = v})

\* C16: the PGM is the header "P5\n<W> <H>\n255\n" followed by exactly W*H
\* bytes, each 0 or 254, with as many 0 bytes as the grid has 0 cells.
C16_ImageLayout ==
  Done => /\ W < 10 /\ H < 10
          /\ Len(pgmData) = 11 + W * H
          /\ SubSeq(pgmData, 1, 3) = <<80, 53, 10>>
          /\ pgmData[4] = 48 + W /\ pgmData[5] = 32 /\ pgmData[6] = 48 + H
          /\ SubSeq(pgmData, 7, 11) = <<10, 50, 53, 53, 10>>
          /\ \A k \in 12..Len(pgmData) : pgmData[k] \in {0, 254}
          /\ CountIn(pgmData, 12, Len(pgmData), 0)
               = Cardinality({i \in DOMAIN grid : grid[i] = 0})

\* a grid with at least two occupied cells and a free one has been encoded
C16_Witness ==
  /\ Done
  /\ Cardinality({i \in DOMAIN grid : grid[i] = 0}) >= 2
  /\ \E i \in DOMAIN grid : grid[i] = 254
  /\ Len(pgmData) > 11

\* C18: the metadata holds the lines "negate: 0", "occupied_thresh: 0.65" and
\* "free_thresh: 0.196" exactly once each, whatever the input; the image line
\* is <name>.pgm and the origin line is a 3-element list ending in 0.0.
C18_MetadataLiteral ==
  Done => /\ Len(yamlContent) = 6
          /\ yamlContent[1] = <<"image: ", mapInfo.name, ".pgm">>
          /\ Len(yamlContent[3]) = 5
          /\ yamlContent[3][1] = "origin: [" /\ yamlContent[3][2] = mapInfo.origin[1]
          /\ yamlContent[3][3] = ", " /\ yamlContent[3][4] = mapInfo.origin[2]
          /\ yamlContent[3][5] = ", 0.0]"
          /\ yamlContent[4] = <<"negate: 0">>
          /\ yamlContent[5] = <<"occupied_thresh: 0.65">>
          /\ yamlContent[6] = <<"free_thresh: 0.196">>

\* metadata written for a map with a non-zero origin and an occupied grid
C18_Witness ==
  /\ Done /\ Len(yamlContent) = 6
  /\ mapInfo.origin # <<0, 0>>
  /\ \E i \in DOMAIN grid : grid[i] = 0

\* the downloads call c has triggered so far, in order
DeliveriesOf(c) == SelectSeq(delivered, LAMBDA d : d.call = c)
\* the three downloads of call c
Expected(c) ==
  << Click(c, <<dlCalls[c].mapName, ".pgm">>, dlCalls[c].pgmData),
     Click(c, <<dlCalls[c].mapName, ".yaml">>, dlCalls[c].yamlContent),
     Click(c, <<dlCalls[c].mapName, "_planner.npy">>, dlCalls[c].plannerNpyData) >>

\* C17: a call triggers the downloads <mapName>.pgm, <mapName>.yaml and
\* <mapName>_planner.npy, each once and in that order (the .pgm one within the
\* call itself), and all three have occurred once the timers have fired.
C17_ExportOrder ==
  /\ [](\A c \in 1..Len(dlCalls) :
          /\ Len(DeliveriesOf(c)) \in 1..3
          /\ DeliveriesOf(c) = SubSeq(Expected(c), 1, Len(DeliveriesOf(c))))
  /\ \A c \in 1..MaxCalls :
       (Len(dlCalls) >= c) ~> (Len(dlCalls) >= c /\ DeliveriesOf(c) = Expected(c))

\* a call's three downloads have all occurred and no timer is pending
C17_Witness ==
  /\ Len(dlCalls) >= 1 /\ timers = {}
  /\ Len(DeliveriesOf(1)) = 3
  /\ delivered[1].download[2] = ".pgm"

\* C19: when the per-object loops run as concurrent processes whose cell
\* writes interleave in any order, the grid they end with is the grid of the
\* sequential run, for disjoint and for overlapping objects.
C19_ParallelMerge ==
  (pc = "parallel" /\ \A k \in DOMAIN procs : procs[k].st = "done")
    => grid = Rasterize(mapInfo, objects)

\* two processes are both in the middle of their loops, and a cell that both
\* objects cover is already occupied
C19_Witness ==
  /\ pc = "parallel" /\ Len(objects) >= 2
  /\ \A k \in 1..2 :
       /\ procs[k].st = "run"
       /\ <<procs[k].gx, procs[k].gy>> # <<ProcRange(k).minX, ProcRange(k).minY>>
  /\ objects[1] # objects[2]
  /\ \E x \in Cols, y \in Rows :
       /\ Covers(objects[1], x, y) /\ Covers(objects[2], x, y)
       /\ grid[y * W + x] = 0

\* C20: in any sequence of calls, what a call returns is what the same call
\* returns when made alone (nothing of an earlier call's grid shows in it),
\* and a call leaves its mapInfo and objects arguments as they are.
C20_FreshGridPerCall ==
  /\ [](Done =>
          LET alone == Rasterize(mapInfo, objects)
          IN  /\ grid = alone
              /\ pgmData = generatePGM(alone, W, H)
              /\ plannerNpyData = generatePlannerNPY(alone, W, H)
              /\ yamlContent = generateYAML(mapInfo, W, H))
  /\ [][pc # "done" => (mapInfo' = mapInfo /\ objects' = objects)]_vars

\* a call has returned whose grid is free in a cell that the previous call,
\* on a grid of the same size, had occupied
C20_Witness ==
  /\ Done /\ lastGrid # <<>>
  /\ DOMAIN lastGrid = DOMAIN grid
  /\ \E i \in DOMAIN grid : lastGrid[i] = 0 /\ grid[i] = 254

\* ---- isPointInShape on its own (SpecPoint) ----
Returned == ptPc = "return"
\* the squared distance from the point to the centre, and the radius squared
SqDist == (ptPoint.x - Scale * ptShape.center[1]) * (ptPoint.x - Scale * ptShape.center[1])
            + (ptPoint.y - Scale * ptShape.center[2]) * (ptPoint.y - Scale * ptShape.center[2])
SqRadius == (Scale * ptShape.radius) * (Scale * ptShape.radius)

WithinAxes(alongX, alongY) ==
  /\ 2 * Abs(ptPoint.x - Scale * ptShape.center[1]) <= Scale * alongX
  /\ 2 * Abs(ptPoint.y - Scale * ptShape.center[2]) <= Scale * alongY

InBox(point, b) ==
  /\ ~b.nan
  /\ b.minX <= point.x /\ point.x <= b.maxX
  /\ b.minY <= point.y /\ point.y <= b.maxY

\* cell indices around and beyond the grids of MapInfos
CellProbe == (-6)..10

\* every cell whose centre is inside the shape is in the index range of the
\* two loops, on every map
CellsInRange(shape) ==
  \A m \in MapInfos : \A x \in CellProbe, y \in CellProbe :
    isPointInShape(CellCentre(m, x, y), shape) =>
      LET r == GridRange(m, shape)
      IN  /\ ~r.nan
          /\ r.minX <= x /\ x <= r.maxX
          /\ r.minY <= y /\ y <= r.maxY

\* the cell part is a matter of the shape alone: it is stated once per shape
AtOrigin == ptPc = "call" /\ ptPoint = [x |-> 0, y |-> 0]

CornerPoint(shape, k) ==
  [x |-> transformedCorners(shape)[k][1], y |-> transformedCorners(shape)[k][2]]

\* the corner reflected in the horizontal line through the centre
MirroredCorner(shape, k) ==
  [x |-> CornerPoint(shape, k).x,
   y |-> 2 * Scale * shape.center[2] - CornerPoint(shape, k).y]

IsPoly == ptShape.type \in {"polygon", "triangle"}
NumVertices == Len(ptShape.vertices)
\* vertex k, scaled; the vertex before it, with wrap-around
Vertex(k) == <<Scale * ptShape.vertices[k][1], Scale * ptShape.vertices[k][2]>>
PrevIndex(k) == IF k = 1 THEN NumVertices ELSE k - 1

\* twice the signed area of the triangle a, b, c: positive when c is to the
\* left of the line from a to b
Cross(a, b, c) == (b[1] - a[1]) * (c[2] - a[2]) - (b[2] - a[2]) * (c[1] - a[1])

\* the edge between a and b straddles the point's Y and meets the horizontal
\* line through the point strictly to the right of the point
CrossesRight(a, b) ==
  LET lo == IF a[2] <= b[2] THEN a ELSE b
      hi == IF a[2] <= b[2] THEN b ELSE a
  IN  /\ lo[2] <= ptPoint.y /\ ptPoint.y < hi[2]
      /\ Cross(lo, hi, <<ptPoint.x, ptPoint.y>>) > 0

CrossingEdges == {k \in 1..NumVertices : CrossesRight(Vertex(k), Vertex(PrevIndex(k)))}

\* a triangulation of each simple probe polygon (scaled vertices)
Triangles(shape) ==
  IF Len(shape.vertices) = 3
  THEN { [k \in 1..3 |-> <<Scale * shape.vertices[k][1], Scale * shape.vertices[k][2]>>] }
  ELSE IF Len(shape.vertices) = 6
  THEN LET v(x, y) == <<Scale * x, Scale * y>>
       IN  { <<v(-2, -2), v(2, -2), v(2, 0)>>, <<v(-2, -2), v(2, 0), v(-2, 0)>>,
             <<v(-2, 0), v(0, 0), v(0, 2)>>, <<v(-2, 0), v(0, 2), v(-2, 2)>> }
  ELSE {}

InClosedTriangle(q, t) ==
  \/ Cross(t[1], t[2], q) >= 0 /\ Cross(t[2], t[3], q) >= 0 /\ Cross(t[3], t[1], q) >= 0
  \/ Cross(t[1], t[2], q) <= 0 /\ Cross(t[2], t[3], q) <= 0 /\ Cross(t[3], t[1], q) <= 0

OnSegment(q, a, b) ==
  /\ Cross(a, b, q) = 0
  /\ (a[1] <= q[1] /\ q[1] <= b[1]) \/ (b[1] <= q[1] /\ q[1] <= a[1])
  /\ (a[2] <= q[2] /\ q[2] <= b[2]) \/ (b[2] <= q[2] /\ q[2] <= a[2])

PointQ == <<ptPoint.x, ptPoint.y>>
InClosure == \E t \in Triangles(ptShape) : InClosedTriangle(PointQ, t)
OnBoundary == \E k \in 1..NumVertices : OnSegment(PointQ, Vertex(k), Vertex(PrevIndex(k)))

\* C24: for a polygon or triangle isPointInShape returns true exactly when the
\* number of edges (vertices[i], vertices[j]), j the index before i with
\* wrap-around, that straddle the point's Y and meet the horizontal line
\* through the point strictly right of the point is odd; for a simple polygon
\* that is true strictly inside and false strictly outside.
C24_EvenOdd ==
  (Returned /\ IsPoly) =>
    /\ ptResult = (Cardinality(CrossingEdges) % 2 = 1)
    /\ isPointInShape(ptPoint, ptShape) = ptResult
    /\ (InClosure /\ ~OnBoundary) => ptResult = TRUE
    /\ ~InClosure => ptResult = FALSE

\* the ray from a point left of the L-shaped polygon has crossed two edges
\* and the point has been found outside
C24_Witness ==
  /\ Returned /\ IsPoly /\ NumVertices = 6
  /\ Cardinality(CrossingEdges) = 2
  /\ ~InClosure
  /\ ptResult = FALSE

\* the edge of the iteration at hand is horizontal, or entirely above, or
\* entirely at or below the point's Y
EdgeCannotCross ==
  LET yi == Vertex(ptI)[2]
      yj == Vertex(ptJ)[2]
  IN  \/ yi = yj
      \/ yi > ptPoint.y /\ yj > ptPoint.y
      \/ yi <= ptPoint.y /\ yj <= ptPoint.y

\* C27: the polygon loop divides by yj - yi only for edges with yi # yj, so it
\* never divides by zero, for any vertex list and point; and an iteration on
\* a horizontal edge, or on an edge entirely above or entirely at or below the
\* point's Y, leaves the inside flag as it is.
C27_NoDivisionByZero ==
  /\ [](0 \notin ptDivisors)
  /\ [][(ptPc = "loop" /\ ptI <= NumVertices /\ EdgeCannotCross)
          => ptInside' = ptInside]_vars

\* the loop has passed a horizontal edge at the very Y of the point, and has
\* divided for another edge
C27_Witness ==
  /\ ptPc = "loop" /\ ptI >= 2
  /\ Vertex(ptI - 1)[2] = Vertex(PrevIndex(ptI - 1))[2]
  /\ Vertex(ptI - 1)[2] = ptPoint.y
  /\ ptDivisors # {}

\* C25: the encoders leave the grid as rasterization left it, so whatever the
\* order in which they run, the image, the metadata and the planner array
\* all describe that one grid.
C25_EncodersKeepGrid ==
  /\ [][pc = "encoders" => grid' = grid]_vars
  /\ [](Done =>
          /\ grid = Rasterize(mapInfo, objects)
          /\ pgmData = generatePGM(Rasterize(mapInfo, objects), W, H)
          /\ yamlContent = generateYAML(mapInfo, W, H)
          /\ plannerNpyData = generatePlannerNPY(Rasterize(mapInfo, objects), W, H))

\* all three encoders have run on a grid with an occupied cell whose image
\* rows are not the grid's rows
C25_Witness ==
  /\ Done /\ oi = Len(objects) + 1 /\ lastGrid = <<>>
  /\ \E i \in DOMAIN grid : grid[i] = 0
  /\ BytesOf(grid, W * H) # SubSeq(pgmData, Len(PGMHeader(W, H)) + 1, Len(pgmData))
  /\ \E i \in DOMAIN grid : PlannerByte(i) = 1

\* how often the download d has occurred; where it occurred first
TimesDelivered(d) == Cardinality({k \in 1..Len(delivered) : delivered[k] = d})
PositionOf(d) == CHOOSE k \in 1..Len(delivered) : delivered[k] = d
AllExpected == UNION { {Expected(c)[n] : n \in 1..3} : c \in 1..Len(dlCalls) }

\* C26: when calls of downloadOccupancyGrid overlap, then however the timer
\* callbacks interleave, every download carries the name and the content of
\* its own call, none occurs twice, within a call .pgm comes before .yaml and
\* .yaml before _planner.npy, and once the timers have fired every call's
\* three files have each been delivered exactly once.
C26_OverlappingExports ==
  /\ [](\A k \in 1..Len(delivered) :
          \E n \in 1..3 : delivered[k] = Expected(delivered[k].call)[n])
  /\ [](\A d \in AllExpected : TimesDelivered(d) <= 1)
  /\ [](\A c \in 1..Len(dlCalls) : \A n \in 1..2 :
          TimesDelivered(Expected(c)[n + 1]) = 1
            => /\ TimesDelivered(Expected(c)[n]) = 1
               /\ PositionOf(Expected(c)[n]) < PositionOf(Expected(c)[n + 1]))
  /\ [](timers = {} =>
          /\ Len(delivered) = 3 * Len(dlCalls)
          /\ \A d \in AllExpected : TimesDelivered(d) = 1)
  /\ (Len(dlCalls) = MaxCalls) ~> (timers = {})

\* two calls with different names and data overlapped: the second was made
\* before the first one's timers fired, its .yaml came before the first
\* one's, and all six files are there
C26_Witness ==
  /\ Len(dlCalls) >= 2 /\ timers = {}
  /\ dlCalls[1].mapName # dlCalls[2].mapName
  /\ dlCalls[1].pgmData # dlCalls[2].pgmData
  /\ TimesDelivered(Expected(1)[2]) = 1 /\ TimesDelivered(Expected(2)[2]) = 1
  /\ PositionOf(Expected(2)[1]) < PositionOf(Expected(1)[2])
  /\ PositionOf(Expected(2)[2]) < PositionOf(Expected(1)[2])
  /\ PositionOf(Expected(1)[3]) < PositionOf(Expected(2)[3])

\* ---- the editor: undo, history, shapes of several clicks

\* C28: after any committed edit (add, update, delete, clear, drag release)
\* one undo restores the object list to what it was immediately before that
\* edit, the first edit made on a new, empty map included.
C28_UndoRestores ==
  (edLog.op = "undo" /\ edLog.prev = "edit") => edObjects = edLog.before

HistoryInRange ==
  /\ -1 <= historyIndex /\ historyIndex <= Len(history) - 1
  /\ historyIndex = -1 => history = <<>>
\* (no drag is under way: a drag shows its moves before it is released)
AfterUndoRedo ==
  (edLog.op \in {"undo", "redo"} /\ historyIndex >= 0 /\ ~isDragging)
    => edObjects = history[historyIndex + 1]
\* the handler that commits is one of the current render; the callback of a
\* timer is, when its click saw the history of now
OfThisRender ==
  edLog'.op = "deferredAdd"
    => /\ Head(edTimers).cl.history = history
       /\ Head(edTimers).cl.historyIndex = historyIndex
EditDiscardsRedo ==
  (edLog'.op \in CommittedOps /\ OfThisRender)
    => /\ history' = Append(SubSeq(history, 1, historyIndex + 1), edObjects')
       /\ historyIndex' = Len(history') - 1

BuiltFrom(shape, pts) ==
  IF Len(pts) = 3
  THEN shape.type = "triangle" /\ shape.vertices = pts
  ELSE /\ shape.type = "rectangle"
       /\ 2 * shape.center[1] = pts[1][1] + pts[2][1]
       /\ 2 * shape.center[2] = pts[1][2] + pts[2][2]
       /\ shape.width * shape.width
            = (pts[2][1] - pts[1][1]) * (pts[2][1] - pts[1][1])
              + (pts[2][2] - pts[1][2]) * (pts[2][2] - pts[1][2])

\* C30: once the deferred addObject of the third click of a custom triangle
\* (of the second click of a two-points rectangle) has run, there is exactly
\* one new object, built from the clicked points, and tempPoints is empty.
C30_DeferredShape ==
  edLog.op \in {"deferredAdd", "deferredReturn"}
    => /\ tempPoints = <<>>
       /\ Len(edObjects) = Len(edLog.before) + 1
       /\ SubSeq(edObjects, 1, Len(edLog.before)) = edLog.before
       /\ BuiltFrom(edObjects[Len(edObjects)].shape, edLog.pts)

====
